---- MODULE Spec2Model ----
(***************************************************************************)
(* b3pulse ingestion pipeline: ProcessDirectory (bounded fan-out over the  *)
(* expected business-day files, errgroup with a shared cancellation        *)
(* signal, a counting semaphore), parseAndPersistFile (row loop, batched   *)
(* flushes) and the repository (ledger and trades table).                  *)
(*                                                                         *)
(* Days are numbered 1..7: day i is the i-th entry of                      *)
(* LastNBusinessDays(7, now), most recent first.  The file of day i is the *)
(* file whose name is built from that date, and the date parsed back from  *)
(* that name is the same day (time.Parse of a name made by Format with the *)
(* same layout cannot fail, so the filename-date error branch of the       *)
(* worker is unreachable for names the orchestrator built itself).         *)
(***************************************************************************)
EXTENDS Integers, Sequences, FiniteSets, TLC

\* ---------------------------------------------------------------- constants
\* clamp of nDays and of parallel (ProcessDirectory)
MaxDays == 7
MaxPar == 7

\* ------------------------------------------------------------------- bounds
\* defaultBatchSize is 5000 in the source; the model scales it down so that a
\* file of MaxRows rows spans more than one batch.
BatchSize == 2
\* longest file, in data rows
MaxRows == 3
\* number of ProcessDirectory runs in one behaviour
MaxRuns == 2
\* number of injected faults (failing repository calls, caller cancellations)
MaxFaults == 1
\* the year of the reference instants given to LastNBusinessDays
RefYear == 2025
\* the largest number of CPUs of the machine
MaxCPU == 9
\* number of UpsertIngestionLog calls in one behaviour
MaxCalls == 3
\* the years given to easterSunday
FirstYear == 1900
LastYear == 2199

Days == 1..MaxDays

\* every error, and every return value, is a record of one shape
Err(k, w, ln) == [kind |-> k, file |-> w, line |-> ln, names |-> <<>>]
NoErr == Err("none", 0, 0)
Ok == Err("ok", 0, 0)
Running == Err("running", 0, 0)
MissingErr(names) == [kind |-> "missing", file |-> 0, line |-> 0, names |-> names]
NoEntry == [filename |-> 0, rowCount |-> -1]
\* no pure function is being called
NoCall == [op |-> "none"]

\* ------------------------------------------------------------ file contents
\* A file on disk: stat is "present", "absent" (os.IsNotExist) or "staterr"
\* (os.Stat fails for another reason); header is the first record of the file
\* (no cells: the file is empty); rows are the records after it.
File(st, h, r) == [stat |-> st, header |-> h, rows |-> r]
AbsentFile == File("absent", <<>>, <<>>)
StatErrFile == File("staterr", <<>>, <<>>)

\* ------------------------------------------------------------- cell parsing
\* A file is the stream of records the CSV reader delivers.  A record is a
\* sequence of cells and a cell a sequence of characters (one-character
\* strings); a column name of the header is written as one symbol.
expectedHeaders ==
    <<"DataReferencia", "CodigoInstrumento", "AcaoAtualizacao", "PrecoNegocio",
      "QuantidadeNegociada", "HoraFechamento", "CodigoIdentificadorNegocio",
      "TipoSessaoPregao", "DataNegocio", "CodigoParticipanteComprador",
      "CodigoParticipanteVendedor">>

\* strings.TrimSpace
RECURSIVE TrimLeft(_)
TrimLeft(s) == IF s # <<>> /\ Head(s) = " " THEN TrimLeft(Tail(s)) ELSE s
RECURSIVE TrimRight(_)
TrimRight(s) ==
    IF s # <<>> /\ s[Len(s)] = " " THEN TrimRight(SubSeq(s, 1, Len(s) - 1)) ELSE s
TrimSpace(s) == TrimRight(TrimLeft(s))

\* strings.ReplaceAll(s, ",", ".")
CommaToDot(s) == [i \in 1..Len(s) |-> IF s[i] = "," THEN "." ELSE s[i]]

Digits == <<"0", "1", "2", "3", "4", "5", "6", "7", "8", "9">>
IsDigit(c) == \E i \in 1..Len(Digits) : Digits[i] = c
DigitVal(c) == (CHOOSE i \in 1..Len(Digits) : Digits[i] = c) - 1
AllDigits(s) == \A i \in 1..Len(s) : IsDigit(s[i])
RECURSIVE Atoi(_)
Atoi(s) ==
    IF s = <<>> THEN 0
    ELSE 10 * Atoi(SubSeq(s, 1, Len(s) - 1)) + DigitVal(s[Len(s)])
IsSign(c) == c = "+" \/ c = "-"
\* position of the first occurrence of one of the characters cs in s (0: none)
IndexAny(s, cs) ==
    IF \E i \in 1..Len(s) : s[i] \in cs
    THEN CHOOSE i \in 1..Len(s) : s[i] \in cs /\ \A j \in 1..(i - 1) : s[j] \notin cs
    ELSE 0
\* unicode lower case, for the letters of the special float values
ToLower(c) ==
    CASE c = "N" -> "n" [] c = "A" -> "a" [] c = "I" -> "i" [] c = "F" -> "f"
      [] c = "T" -> "t" [] c = "Y" -> "y" [] OTHER -> c
LowerCase(s) == [i \in 1..Len(s) |-> ToLower(s[i])]

\* a float64: a number neg * mant * 10^exp with mant free of trailing zeros,
\* or one of the special values
Num(neg, mant, e) == [kind |-> "num", neg |-> neg, mant |-> mant, exp |-> e]
RECURSIVE Normal(_, _, _)
Normal(neg, mant, e) ==
    IF mant = 0 THEN Num(FALSE, 0, 0)
    ELSE IF mant % 10 = 0 THEN Normal(neg, mant \div 10, e + 1)
    ELSE Num(neg, mant, e)
Zero == Num(FALSE, 0, 0)
NaN == [kind |-> "nan", neg |-> FALSE, mant |-> 0, exp |-> 0]
Inf(neg) == [kind |-> "inf", neg |-> neg, mant |-> 0, exp |-> 0]
NotFloat == [kind |-> "error", neg |-> FALSE, mant |-> 0, exp |-> 0]
\* the decimal exponent of the largest float64
MaxExp10 == 308

\* F applied to the value of v (the argument is evaluated once)
Apply(F(_), v) == CHOOSE r \in {F(x) : x \in {v}} : TRUE

RECURSIVE LeadingTwo(_)
\* the two leading digits of m, and the number of its decimal digits
LeadingTwo(m) == IF m < 100 THEN (IF m < 10 THEN 10 * m ELSE m) ELSE LeadingTwo(m \div 10)
RECURSIVE DigitCount(_)
DigitCount(m) == IF m < 10 THEN 1 ELSE 1 + DigitCount(m \div 10)

\* the value of a decimal literal: integer digits, fraction digits, exponent;
\* a magnitude above the largest float64 (1.797...e308, taken here as
\* 1.8e308) is a range error
decimalValue(neg, ipart, fpart, e) ==
    Apply(LAMBDA v :
            IF \/ DigitCount(v.mant) - 1 + v.exp > MaxExp10
               \/ (DigitCount(v.mant) - 1 + v.exp = MaxExp10 /\ LeadingTwo(v.mant) >= 18)
            THEN NotFloat ELSE v,
          Normal(neg, Atoi(ipart \o fpart), e - Len(fpart)))

\* the exponent part of a literal, after the e: an optional sign and at
\* least one digit
exponentOk(expo) ==
    LET digits == IF expo # <<>> /\ IsSign(expo[1]) THEN Tail(expo) ELSE expo
    IN  digits # <<>> /\ AllDigits(digits)
exponentValue(expo) ==
    IF expo = <<>> THEN 0
    ELSE IF expo[1] = "-" THEN 0 - Atoi(Tail(expo))
    ELSE IF expo[1] = "+" THEN Atoi(Tail(expo))
    ELSE Atoi(expo)

\* digits with at most one point and at least one digit, then the exponent
parseMantissa(neg, mantissa, expo, hasExp) ==
    Apply(LAMBDA dot :
            Apply(LAMBDA parts :
                    IF /\ AllDigits(parts[1]) /\ AllDigits(parts[2])
                       /\ Len(parts[1]) + Len(parts[2]) > 0
                       /\ hasExp => exponentOk(expo)
                    THEN decimalValue(neg, parts[1], parts[2], exponentValue(expo))
                    ELSE NotFloat,
                  IF dot = 0 THEN <<mantissa, <<>> >>
                  ELSE <<SubSeq(mantissa, 1, dot - 1),
                         SubSeq(mantissa, dot + 1, Len(mantissa))>>),
          IndexAny(mantissa, {"."}))

\* the literal without its sign: a special value, or mantissa and exponent
parseUnsigned(neg, signed, body) ==
    Apply(LAMBDA low :
            IF low = <<"n", "a", "n">> /\ ~signed THEN NaN
            ELSE IF low = <<"i", "n", "f">>
                    \/ low = <<"i", "n", "f", "i", "n", "i", "t", "y">> THEN Inf(neg)
            ELSE Apply(LAMBDA epos :
                         IF epos = 0 THEN parseMantissa(neg, body, <<>>, FALSE)
                         ELSE parseMantissa(neg, SubSeq(body, 1, epos - 1),
                                            SubSeq(body, epos + 1, Len(body)), TRUE),
                       IndexAny(low, {"e"})),
          LowerCase(body))

\* strconv.ParseFloat(s, 64) for decimal input: "NaN", signed "Inf" and
\* "Infinity" in any case; otherwise sign, digits with at most one point and
\* at least one digit, and an optional exponent.  (Hexadecimal floats and
\* digit-separating underscores need the characters x and _, which no cell of
\* the model holds.)
ParseFloat(str) ==
    Apply(LAMBDA s :
            IF s # <<>> /\ IsSign(s[1]) THEN parseUnsigned(s[1] = "-", TRUE, Tail(s))
            ELSE parseUnsigned(FALSE, FALSE, s),
          str)

\* strconv.ParseInt(s, 10, 64): an optional sign and at least one digit
NotInt == [ok |-> FALSE, val |-> 0]
ParseInt(s) ==
    LET signed == s # <<>> /\ IsSign(s[1])
        body == IF signed THEN Tail(s) ELSE s
    IN  IF body # <<>> /\ AllDigits(body)
        THEN [ok |-> TRUE, val |-> IF signed /\ s[1] = "-" THEN 0 - Atoi(body)
                                   ELSE Atoi(body)]
        ELSE NotInt

IsLeap(y) == (y % 4 = 0 /\ y % 100 # 0) \/ y % 400 = 0
DaysIn(y, m) ==
    IF m = 2 THEN (IF IsLeap(y) THEN 29 ELSE 28)
    ELSE IF m \in {4, 6, 9, 11} THEN 30 ELSE 31

\* a civil date; the zero time.Time is 1 January of year 1
Date(y, m, d) == [year |-> y, month |-> m, day |-> d]
ZeroDate == Date(1, 1, 1)
NotDate == Date(0, 0, 0)
\* time.Parse("2006-01-02", s)
ParseDate(s) ==
    IF /\ Len(s) = 10 /\ s[5] = "-" /\ s[8] = "-"
       /\ AllDigits(SubSeq(s, 1, 4)) /\ AllDigits(SubSeq(s, 6, 7))
       /\ AllDigits(SubSeq(s, 9, 10))
    THEN LET y == Atoi(SubSeq(s, 1, 4))
             m == Atoi(SubSeq(s, 6, 7))
             d == Atoi(SubSeq(s, 9, 10))
         IN  IF m \in 1..12 /\ d >= 1 /\ d <= DaysIn(y, m) THEN Date(y, m, d)
             ELSE NotDate
    ELSE NotDate

\* a clock time; the zero time.Time is midnight
Clock(h, m, sec) == [hour |-> h, minute |-> m, second |-> sec]
ZeroClock == Clock(0, 0, 0)
NotClock == Clock(0 - 1, 0, 0)
\* time.Parse("150405", s) for a six-character s
ParseClock(s) ==
    IF Len(s) = 6 /\ AllDigits(s)
    THEN LET h == Atoi(SubSeq(s, 1, 2))
             m == Atoi(SubSeq(s, 3, 4))
             sec == Atoi(SubSeq(s, 5, 6))
         IN  IF h < 24 /\ m < 60 /\ sec < 60 THEN Clock(h, m, sec) ELSE NotClock
    ELSE NotClock

\* the cells of recordToTrade that may fail: each is trimmed, and an empty
\* cell gives the zero value
dateCell(cell) ==
    IF TrimSpace(cell) = <<>> THEN ZeroDate ELSE ParseDate(TrimSpace(cell))
priceCell(cell) ==
    IF TrimSpace(cell) = <<>> THEN Zero ELSE ParseFloat(CommaToDot(TrimSpace(cell)))
quantityCell(cell) ==
    IF TrimSpace(cell) = <<>> THEN [ok |-> TRUE, val |-> 0] ELSE ParseInt(TrimSpace(cell))
closingCellWhole(cell) ==
    IF TrimSpace(cell) = <<>> THEN ZeroClock ELSE ParseClock(TrimSpace(cell))
closingCell(cell) ==
    IF TrimSpace(cell) = <<>> THEN ZeroClock
    ELSE IF Len(TrimSpace(cell)) < 6 THEN NotClock
    ELSE ParseClock(SubSeq(TrimSpace(cell), 1, 6))

\* the error of recordToTrade: the first failing cell, in the order of the
\* checks
tradeError(rec) ==
    IF dateCell(rec[1]) = NotDate THEN "ReferenceDate"
    ELSE IF priceCell(rec[4]) = NotFloat THEN "TradePrice"
    ELSE IF ~quantityCell(rec[5]).ok THEN "TradeQuantity"
    ELSE IF closingCell(rec[6]) = NotClock THEN "ClosingTime"
    ELSE IF dateCell(rec[9]) = NotDate THEN "TradeDate"
    ELSE "none"

\* recordToTrade: rec has as many cells as expectedHeaders
recordToTrade(rec) ==
    [err |-> tradeError(rec),
     ReferenceDate |-> dateCell(rec[1]),
     InstrumentCode |-> TrimSpace(rec[2]),
     UpdateAction |-> TrimSpace(rec[3]),
     TradePrice |-> priceCell(rec[4]),
     TradeQuantity |-> quantityCell(rec[5]).val,
     ClosingTime |-> closingCell(rec[6]),
     TradeIdentifierCode |-> TrimSpace(rec[7]),
     SessionType |-> TrimSpace(rec[8]),
     TradeDate |-> dateCell(rec[9]),
     BuyerParticipantCode |-> TrimSpace(rec[10]),
     SellerParticipantCode |-> TrimSpace(rec[11])]

\* the header line, and the data row, of the repository's parser test
\* (";PETR4;I;10,50;100;101530000;ABC;REGULAR;2025-09-11;B;S")
HeaderLine == [i \in 1..Len(expectedHeaders) |-> <<expectedHeaders[i]>>]
validRow ==
    << <<>>, <<"P", "E", "T", "R", "4">>, <<"I">>, <<"1", "0", ",", "5", "0">>,
       <<"1", "0", "0">>, <<"1", "0", "1", "5", "3", "0", "0", "0", "0">>,
       <<"A", "B", "C">>, <<"R", "E", "G", "U", "L", "A", "R">>,
       <<"2", "0", "2", "5", "-", "0", "9", "-", "1", "1">>, <<"B">>, <<"S">> >>
\* the test's row of empty numeric cells (";PETR4;I;; ;;;;;;")
emptyCellsRow ==
    << <<>>, <<"P", "E", "T", "R", "4">>, <<"I">>, <<>>, <<" ">>, <<>>, <<>>, <<>>,
       <<>>, <<>>, <<>> >>
\* the same row with one cell replaced
WithCell(row, i, cell) == [row EXCEPT ![i] = cell]
\* the test's header of three columns, and its row of two cells
shortHeader == << <<"X">>, <<"Y">>, <<"Z">> >>
shortRow == << <<"a">>, <<"b">> >>

\* ----------------------------------------------------------------- calendar
\* A time.Time is a calendar day (counted from 1 January 1970), the seconds
\* elapsed in that day, and the location it carries.  Comparing two
\* time.Time values with ==, as a map lookup does, compares the location too.
Time(z, sec, loc) == [day |-> z, sec |-> sec, loc |-> loc]

\* the day number of a civil date
DaysFromCivil(y, m, d) ==
    LET yy == IF m <= 2 THEN y - 1 ELSE y
        era == yy \div 400
        yoe == yy - era * 400
        mp == IF m > 2 THEN m - 3 ELSE m + 9
        doy == (153 * mp + 2) \div 5 + d - 1
        doe == yoe * 365 + yoe \div 4 - yoe \div 100 + doy
    IN  era * 146097 + doe - 719468

\* the civil date of a day number
CivilFromDays(z) ==
    LET zz == z + 719468
        era == zz \div 146097
        doe == zz - era * 146097
        yoe == (doe - doe \div 1460 + doe \div 36524 - doe \div 146096) \div 365
        doy == doe - (365 * yoe + yoe \div 4 - yoe \div 100)
        mp == (5 * doy + 2) \div 153
        d == doy - (153 * mp + 2) \div 5 + 1
        m == IF mp < 10 THEN mp + 3 ELSE mp - 9
    IN  Date(IF m <= 2 THEN yoe + era * 400 + 1 ELSE yoe + era * 400, m, d)

\* t.Weekday(): 0 is Sunday, 6 is Saturday (1 January 1970 was a Thursday)
Weekday(t) == (t.day + 4) % 7
\* t.Year()
Year(t) == CivilFromDays(t.day).year
\* t.Format("01-02"): month and day
FormatMonthDay(t) == <<CivilFromDays(t.day).month, CivilFromDays(t.day).day>>
\* t.AddDate(0, 0, k)
AddDate(t, k) == Time(t.day + k, t.sec, t.loc)

truncateToDate(t) == Time(t.day, 0, t.loc)

\* Meeus/Jones/Butcher without the correction m
easterSundayUncorrected(year) ==
    LET a == year % 19
        b == year \div 100
        c == year % 100
        d == b \div 4
        e == b % 4
        f == (b + 8) \div 25
        g == (b - f + 1) \div 3
        h == (19 * a + b - d - g + 15) % 30
        i == c \div 4
        k == c % 4
        l == (32 + 2 * e + 2 * i - h - k) % 7
        month == (h + l + 114) \div 31
        day == ((h + l + 114) % 31) + 1
    IN  Time(DaysFromCivil(year, month, day), 0, "Local")

\* Meeus/Jones/Butcher; the result is a midnight of time.Local
easterSunday(year) ==
    LET a == year % 19
        b == year \div 100
        c == year % 100
        d == b \div 4
        e == b % 4
        f == (b + 8) \div 25
        g == (b - f + 1) \div 3
        h == (19 * a + b - d - g + 15) % 30
        i == c \div 4
        k == c % 4
        l == (32 + 2 * e + 2 * i - h - k) % 7
        m == (a + 11 * h + 22 * l) \div 451
        month == (h + l - 7 * m + 114) \div 31
        day == ((h + l - 7 * m + 114) % 31) + 1
    IN  Time(DaysFromCivil(year, month, day), 0, "Local")

\* the fixed national holidays, as month and day
fixed == {<<1, 1>>, <<4, 21>>, <<5, 1>>, <<9, 7>>, <<10, 12>>, <<11, 2>>,
          <<11, 15>>, <<12, 25>>}

isBusinessDayBR(d) ==
    LET easter == easterSunday(Year(d))
        movables == {truncateToDate(AddDate(easter, 0 - 48)),
                     truncateToDate(AddDate(easter, 0 - 47)),
                     truncateToDate(AddDate(easter, 0 - 2)),
                     truncateToDate(AddDate(easter, 60))}
    IN  IF Weekday(d) = 6 \/ Weekday(d) = 0 THEN FALSE
        ELSE IF FormatMonthDay(d) \in fixed THEN FALSE
        ELSE IF truncateToDate(d) \in movables THEN FALSE
        ELSE TRUE

RECURSIVE LastNFrom(_, _, _)
\* the loop of LastNBusinessDays
LastNFrom(n, d, out) ==
    IF Len(out) >= n THEN out
    ELSE LastNFrom(n, AddDate(d, 0 - 1),
                   IF isBusinessDayBR(d) THEN Append(out, d) ELSE out)
LastNBusinessDays(n, from) == LastNFrom(n, truncateToDate(from), <<>>)

\* ------------------------------------------------------------------- state
VARIABLES
    dir,              \* [Days -> file]   (the directory never changes)
    numCPU,           \* runtime.NumCPU()
    ledger,           \* ingestion_log: [Days -> NoEntry | entry]
    trades,           \* trades table: [Days -> [1..MaxRows -> copies of that row]]
    runs,             \* ProcessDirectory calls made so far
    mainpc,           \* "idle" | "launch" | "wait" | "returned"
    nDays,            \* clamped nDays of the current run
    maxParallel,      \* effective parallelism of the current run
    force,            \* force flag of the current run
    launched,         \* files for which g.Go was called
    sem,              \* tokens in the semaphore channel
    callerCancelled,  \* the caller's ctx is cancelled
    gcancelled,       \* the errgroup cancelled gctx
    gerr,             \* errgroup's first error
    worker,           \* [Days -> worker record]
    result,           \* return value of the last ProcessDirectory call
    faults,           \* faults injected so far
    \* history (observation only)
    calls,            \* repository calls of the current run, per day
    firstFailed,      \* the worker whose error reached the group first (0: none)
    ledger0,          \* ledger at the start of the current run
    trades0,          \* trades at the start of the current run
    prev,             \* the previous run returned success, neither run is forced
                      \* and both are over the same days
    \* a call of one of the program's pure functions
    input,            \* the arguments of the call
    output            \* its return value

vars == <<dir, numCPU, ledger, trades, runs, mainpc, nDays, maxParallel, force,
          launched, sem, callerCancelled, gcancelled, gerr, worker, result,
          faults, calls, firstFailed, ledger0, trades0, prev, input, output>>

\* total: the row count of parseAndPersistFile, while it runs and as returned
IdleWorker == [pc |-> "idle", exists |-> FALSE, buf |-> <<>>, total |-> 0,
               line |-> 1, err |-> NoErr]
\* batches: the batches handed to InsertTradesBatch, in call order (a row is
\* named by its position among the data rows of the file)
NoCalls == [has |-> 0, del |-> 0, ins |-> 0, rows |-> 0, ups |-> 0, batches |-> <<>>]
NoTrades == [d \in Days |-> [i \in 1..MaxRows |-> 0]]

\* ------------------------------------------------------------- repository
HasIngestionForDate(l, d) == l[d] # NoEntry

UpsertReplacingAll(l, d, fname, n) ==
    [x \in Days |-> IF x = d THEN [filename |-> fname, rowCount |-> n] ELSE NoEntry]
\* a write that is right only when the days are written in ascending order
UpsertTruncating(l, d, fname, n) ==
    [x \in Days |-> IF x = d THEN [filename |-> fname, rowCount |-> n]
                    ELSE IF x > d THEN NoEntry ELSE l[x]]
UpsertIngestionLog(l, d, fname, n) ==
    [l EXCEPT ![d] = [filename |-> fname, rowCount |-> n]]

\* The same statement on the rows of ingestion_log (file_date, filename,
\* row_count): INSERT ... ON CONFLICT (file_date) DO UPDATE SET filename,
\* row_count.  The pipeline's ledger above is this table read by its key.
IngestionLogRow(d, fname, n) == [file_date |-> d, filename |-> fname, row_count |-> n]
UpsertRowsDoNothing(rows, d, fname, n) ==
    IF \E r \in rows : r.file_date = d THEN rows
    ELSE rows \cup {IngestionLogRow(d, fname, n)}
UpsertRows(rows, d, fname, n) ==
    IF \E r \in rows : r.file_date = d
    THEN {IF r.file_date = d THEN IngestionLogRow(d, fname, n) ELSE r : r \in rows}
    ELSE rows \cup {IngestionLogRow(d, fname, n)}

\* DELETE FROM trades WHERE trade_date = d; a row's trade date is the day of
\* the file it came from
DeleteTradesByDate(t, d) == [t EXCEPT ![d] = [i \in 1..MaxRows |-> 0]]

RECURSIVE InsertTradesBatch(_, _, _)
InsertTradesBatch(t, d, batch) ==
    IF batch = <<>> THEN t
    ELSE InsertTradesBatch([t EXCEPT ![d][Head(batch)] = @ + 1], d, Tail(batch))

\* ----------------------------------------------------------- orchestrator
ClampDays(n) == IF n < 1 THEN 1 ELSE IF n > MaxDays THEN MaxDays ELSE n

EffectiveParallelNoCap(p, cpus) == IF p > 0 THEN p ELSE cpus
EffectiveParallel(p, cpus) ==
    IF p > 0 THEN (IF p > MaxPar THEN MaxPar ELSE p)
    ELSE IF cpus < MaxPar THEN cpus ELSE MaxPar

RECURSIVE MissingFirst(_, _)
MissingFirst(i, n) ==
    IF i > n THEN <<>>
    ELSE IF dir[i].stat = "absent" THEN <<i>>
    ELSE MissingFirst(i + 1, n)

RECURSIVE MissingFrom(_, _)
\* names of the expected files that do not exist, in the order of dates
MissingFrom(i, n) ==
    IF i > n THEN <<>>
    ELSE IF dir[i].stat = "absent" THEN <<i>> \o MissingFrom(i + 1, n)
    ELSE MissingFrom(i + 1, n)

\* the first expected file, in the order of dates, whose stat fails with an
\* error other than "does not exist" (0: none)
FirstStatErr(n) ==
    IF \E i \in 1..n : dir[i].stat = "staterr"
    THEN CHOOSE i \in 1..n :
            dir[i].stat = "staterr" /\ \A j \in 1..(i - 1) : dir[j].stat # "staterr"
    ELSE 0

\* gctx.Done(): the caller's signal or the group's
NeverCancelled == FALSE
Cancelled == callerCancelled \/ gcancelled

\* the outcomes a repository call can have: failing consumes a fault
Outcomes == IF faults < MaxFaults THEN {TRUE, FALSE} ELSE {TRUE}

\* "if exists && !force": the idempotency skip
ShouldSkipNever(exists, f) == FALSE
ShouldSkipForced(exists, f) == exists /\ f
ShouldSkip(exists, f) == exists /\ ~f

\* "if exists && force": delete before reprocessing
ShouldDeleteNever(exists, f) == FALSE
ShouldDelete(exists, f) == exists /\ f

\* "sem <- struct{}{}" blocks while the channel holds maxParallel tokens
SemFreeAlways(s, cap) == TRUE
SemFree(s, cap) == s < cap

\* errgroup's errOnce: only the first error is kept
ErrLast(old, new) == new
ErrNever(old, new) == NoErr
ErrOnce(old, new) == IF old = NoErr THEN new ELSE old

\* "if len(buf) >= batch"
BatchFullNever(buf, batch) == FALSE
BatchFullOver(buf, batch) == Len(buf) > batch
BatchFull(buf, batch) == Len(buf) >= batch

\* g.Wait(): every goroutine started by g.Go is done
AllExitedOrFailed(n) == gerr # NoErr \/ \A w \in 1..n : worker[w].pc = "done"
AllExited(n) == \A w \in 1..n : worker[w].pc = "done"

\* a data row passes the column-count check and recordToTrade
RowAny(r) == TRUE
RowOk(r) == Len(r) = Len(expectedHeaders) /\ tradeError(r) = "none"

\* the header check of parseAndPersistFile: the count, then each name
HeaderAny(f) == TRUE
HeaderCountOnly(f) == Len(f.header) = Len(expectedHeaders)
HeaderOk(f) ==
    /\ Len(f.header) = Len(expectedHeaders)
    /\ \A i \in 1..Len(f.header) : TrimSpace(f.header[i]) = <<expectedHeaders[i]>>

\* ProcessDirectory, up to the fan-out: clamp, expected files, presence check
StartRun(daysIn, parIn, f) ==
    /\ mainpc \in {"idle", "returned"}
    /\ runs < MaxRuns
    /\ runs' = runs + 1
    /\ prev' = (mainpc = "returned" /\ result = Ok /\ ~force /\ ~f
                 /\ nDays = ClampDays(daysIn))
    /\ nDays' = ClampDays(daysIn)
    /\ force' = f
    /\ maxParallel' = EffectiveParallel(parIn, numCPU)
    /\ launched' = 0
    /\ sem' = 0
    /\ callerCancelled' = FALSE
    /\ gcancelled' = FALSE
    /\ gerr' = NoErr
    /\ worker' = [d \in Days |-> IdleWorker]
    /\ calls' = [d \in Days |-> NoCalls]
    /\ firstFailed' = 0
    /\ ledger0' = ledger
    /\ trades0' = trades
    /\ LET n == ClampDays(daysIn)
           se == FirstStatErr(n)
       IN  IF se # 0
           THEN /\ result' = Err("stat", se, 0)
                /\ mainpc' = "returned"
           ELSE IF MissingFrom(1, n) # <<>>
           THEN /\ result' = MissingErr(MissingFrom(1, n))
                /\ mainpc' = "returned"
           ELSE /\ result' = Running
                /\ mainpc' = "launch"
    /\ UNCHANGED <<input, output, dir, numCPU, ledger, trades, faults>>

\* the launcher loop: acquire a slot, then g.Go
Launch ==
    /\ mainpc = "launch"
    /\ launched < nDays
    /\ SemFree(sem, maxParallel)
    /\ sem' = sem + 1
    /\ launched' = launched + 1
    /\ worker' = [worker EXCEPT ![launched + 1].pc = "has"]
    /\ mainpc' = IF launched + 1 = nDays THEN "wait" ELSE "launch"
    /\ UNCHANGED <<input, output, dir, numCPU, ledger, trades, runs, nDays, maxParallel, force,
                   callerCancelled, gcancelled, gerr, result, faults, calls,
                   firstFailed, ledger0, trades0, prev>>

\* the worker function returns err: the deferred release frees its slot; the
\* error has not reached the group yet
ReturnErrAsNil(w, e) ==
    /\ worker' = [worker EXCEPT ![w].pc = "done"]
    /\ sem' = sem - 1
ReturnErrRetry(w, e) ==
    /\ worker' = [worker EXCEPT ![w].err = e]
    /\ sem' = sem
ReturnErrDeleteIgnored(w, e) ==
    /\ worker' = [worker EXCEPT ![w].pc = IF e.kind = "delete" THEN "parse" ELSE "failed",
                                 ![w].err = e]
    /\ sem' = IF e.kind = "delete" THEN sem ELSE sem - 1
ReturnErr(w, e) ==
    /\ worker' = [worker EXCEPT ![w].pc = "failed", ![w].err = e]
    /\ sem' = sem - 1

\* the worker function returns nil: slot released, goroutine done
ReturnNilHolding(w) ==
    /\ worker' = [worker EXCEPT ![w].pc = "done"]
    /\ sem' = sem
ReturnNil(w) ==
    /\ worker' = [worker EXCEPT ![w].pc = "done"]
    /\ sem' = sem - 1

\* parseAndPersistFile returns (0, err): the row count it hands back is 0
\* whatever it had counted; the worker function then returns the error
ParseFailKeepTotal(w, e) ==
    /\ worker' = [worker EXCEPT ![w].pc = "failed", ![w].err = e]
    /\ sem' = sem - 1
ParseFailGoOn(w, e) ==
    /\ worker' = [worker EXCEPT ![w].pc = "parse", ![w].buf = <<>>]
    /\ sem' = sem
ParseFail(w, e) ==
    /\ worker' = [worker EXCEPT ![w].pc = "failed", ![w].err = e, ![w].total = 0]
    /\ sem' = sem - 1

\* the error of a malformed row: "line %d", with lineNumber already advanced
\* past the row
RowErrBeforeIncrement(w, ln) == Err("row", w, ln - 1)
RowErr(w, ln) == Err("row", w, ln)

\* the row read as line ln is malformed: lineNumber is ln, the parse fails
RowFail(w, ln) ==
    /\ worker' = [worker EXCEPT ![w].pc = "failed", ![w].line = ln,
                                 ![w].err = RowErr(w, ln), ![w].total = 0]
    /\ sem' = sem - 1

\* parseAndPersistFile up to its row loop: open the file, check the header
ParseStart(w, ex) ==
    IF HeaderOk(dir[w])
    THEN /\ worker' = [worker EXCEPT ![w].pc = "parse", ![w].exists = ex]
         /\ sem' = sem
    ELSE /\ worker' = [worker EXCEPT ![w].pc = "failed", ![w].exists = ex,
                                     ![w].err = Err("header", w, 1)]
         /\ sem' = sem - 1

\* worker: repo.HasIngestionForDate, then skip, go on to delete, or parse
WorkerHas(w) ==
    /\ worker[w].pc = "has"
    /\ \E ok \in Outcomes :
        /\ calls' = [calls EXCEPT ![w].has = @ + 1]
        /\ faults' = IF ok THEN faults ELSE faults + 1
        /\ IF ~ok THEN ReturnErr(w, Err("check", w, 0))
           ELSE LET ex == HasIngestionForDate(ledger, w)
                IN  IF ShouldSkip(ex, force)
                    THEN /\ worker' = [worker EXCEPT ![w].pc = "done", ![w].exists = ex]
                         /\ sem' = sem - 1
                    ELSE IF ShouldDelete(ex, force)
                    THEN /\ worker' = [worker EXCEPT ![w].pc = "delete", ![w].exists = ex]
                         /\ sem' = sem
                    ELSE ParseStart(w, ex)
    /\ UNCHANGED <<input, output, dir, numCPU, ledger, trades, runs, mainpc, nDays, maxParallel,
                   force, launched, callerCancelled, gcancelled, gerr, result,
                   firstFailed, ledger0, trades0, prev>>

\* worker: repo.DeleteTradesByDate for an already-ingested day under force
WorkerDelete(w) ==
    /\ worker[w].pc = "delete"
    /\ \E ok \in Outcomes :
        /\ calls' = [calls EXCEPT ![w].del = @ + 1]
        /\ faults' = IF ok THEN faults ELSE faults + 1
        /\ IF ok
           THEN /\ trades' = DeleteTradesByDate(trades, w)
                /\ ParseStart(w, worker[w].exists)
           ELSE /\ trades' = trades
                /\ ReturnErr(w, Err("delete", w, 0))
    /\ UNCHANGED <<input, output, dir, numCPU, ledger, runs, mainpc, nDays, maxParallel,
                   force, launched, callerCancelled, gcancelled, gerr, result,
                   firstFailed, ledger0, trades0, prev>>

\* parseAndPersistFile: one iteration of the row loop, up to the flush
ParseRow(w) ==
    /\ worker[w].pc = "parse"
    /\ LET me == worker[w]
           rows == dir[w].rows
           k == me.line                \* lineNumber: the data row read next is the k-th
       IN  IF Cancelled
           THEN ParseFail(w, Err("canceled", w, 0))
           ELSE IF k > Len(rows)       \* io.EOF: leave the loop, final flush
           THEN /\ worker' = [worker EXCEPT ![w].pc =
                                IF me.buf = <<>> THEN "upsert" ELSE "finalflush"]
                /\ sem' = sem
           ELSE IF ~RowOk(rows[k])
           THEN RowFail(w, k + 1)
           ELSE /\ worker' = [worker EXCEPT
                                ![w].line = k + 1,
                                ![w].buf = Append(me.buf, k),
                                ![w].total = me.total + 1,
                                ![w].pc = IF BatchFull(Append(me.buf, k), BatchSize)
                                          THEN "flush" ELSE "parse"]
                /\ sem' = sem
    /\ UNCHANGED <<input, output, dir, numCPU, ledger, trades, runs, mainpc, nDays, maxParallel,
                   force, launched, callerCancelled, gcancelled, gerr, result,
                   faults, calls, firstFailed, ledger0, trades0, prev>>

\* parseAndPersistFile: flush() of a full buffer, or the final flush
Flush(w) ==
    /\ worker[w].pc \in {"flush", "finalflush"}
    /\ \E ok \in Outcomes :
        /\ faults' = IF ok THEN faults ELSE faults + 1
        /\ IF ok
           THEN /\ trades' = InsertTradesBatch(trades, w, worker[w].buf)
                /\ calls' = [calls EXCEPT ![w].ins = @ + 1,
                                          ![w].rows = @ + Len(worker[w].buf),
                                          ![w].batches = Append(@, worker[w].buf)]
                /\ worker' = [worker EXCEPT
                                ![w].buf = <<>>,
                                ![w].pc = IF worker[w].pc = "flush"
                                          THEN "parse" ELSE "upsert"]
                /\ sem' = sem
           ELSE /\ trades' = trades
                /\ calls' = [calls EXCEPT ![w].ins = @ + 1,
                                          ![w].batches = Append(@, worker[w].buf)]
                /\ ParseFail(w, Err(worker[w].pc, w,
                                     IF worker[w].pc = "flush" THEN worker[w].line ELSE 0))
    /\ UNCHANGED <<input, output, dir, numCPU, ledger, runs, mainpc, nDays, maxParallel,
                   force, launched, callerCancelled, gcancelled, gerr, result,
                   firstFailed, ledger0, trades0, prev>>

\* worker: repo.UpsertIngestionLog after a successful parse
WorkerUpsert(w) ==
    /\ worker[w].pc = "upsert"
    /\ \E ok \in Outcomes :
        /\ calls' = [calls EXCEPT ![w].ups = @ + 1]
        /\ faults' = IF ok THEN faults ELSE faults + 1
        /\ IF ok
           THEN /\ ledger' = UpsertIngestionLog(ledger, w, w, worker[w].total)
                /\ ReturnNil(w)
           ELSE /\ ledger' = ledger
                /\ ReturnErr(w, Err("upsert", w, 0))
    /\ UNCHANGED <<input, output, dir, numCPU, trades, runs, mainpc, nDays, maxParallel,
                   force, launched, callerCancelled, gcancelled, gerr, result,
                   firstFailed, ledger0, trades0, prev>>

\* errgroup: a goroutine whose function returned an error records it (the
\* first one only) and cancels gctx, then is done
GroupRecord(w) ==
    /\ worker[w].pc = "failed"
    /\ gerr' = ErrOnce(gerr, worker[w].err)
    /\ gcancelled' = TRUE
    /\ firstFailed' = IF firstFailed = 0 THEN w ELSE firstFailed
    /\ worker' = [worker EXCEPT ![w].pc = "done"]
    /\ UNCHANGED <<input, output, dir, numCPU, ledger, trades, runs, mainpc, nDays, maxParallel,
                   force, launched, sem, callerCancelled, result, faults, calls,
                   ledger0, trades0, prev>>

\* g.Wait(): returns once every goroutine is done, with the first error
Wait ==
    /\ mainpc = "wait"
    /\ AllExited(nDays)
    /\ result' = IF gerr = NoErr THEN Ok ELSE gerr
    /\ mainpc' = "returned"
    /\ UNCHANGED <<input, output, dir, numCPU, ledger, trades, runs, nDays, maxParallel, force,
                   launched, sem, callerCancelled, gcancelled, gerr, worker,
                   faults, calls, firstFailed, ledger0, trades0, prev>>

\* the caller cancels the ctx it passed to ProcessDirectory
CallerCancel ==
    /\ mainpc \in {"launch", "wait"}
    /\ ~callerCancelled
    /\ faults < MaxFaults
    /\ callerCancelled' = TRUE
    /\ faults' = faults + 1
    /\ UNCHANGED <<input, output, dir, numCPU, ledger, trades, runs, mainpc, nDays, maxParallel,
                   force, launched, sem, gcancelled, gerr, worker, result, calls,
                   firstFailed, ledger0, trades0, prev>>

\* ------------------------------------------------------------ specification
\* the inputs of a run
DaysInputs == {1, 2, 3}
ParInputs == {0, 1, 9}
\* files the directory may hold for a day
FileChoices ==
    {AbsentFile, StatErrFile, File("present", shortHeader, <<>>),
     File("present", HeaderLine, <<>>),
     File("present", HeaderLine, [i \in 1..MaxRows |-> validRow]),
     File("present", HeaderLine,
          [i \in 1..MaxRows |-> IF i = MaxRows THEN shortRow ELSE validRow])}

InitRun ==
    /\ ledger = [d \in Days |-> NoEntry]
    /\ trades = NoTrades
    /\ mainpc = "idle"
    /\ nDays = 1
    /\ maxParallel = 1
    /\ force = FALSE
    /\ launched = 0
    /\ sem = 0
    /\ callerCancelled = FALSE
    /\ gcancelled = FALSE
    /\ gerr = NoErr
    /\ worker = [d \in Days |-> IdleWorker]
    /\ result = NoErr
    /\ calls = [d \in Days |-> NoCalls]
    /\ firstFailed = 0
    /\ ledger0 = ledger
    /\ trades0 = trades
    /\ prev = FALSE
    /\ input = NoCall
    /\ output = NoCall

Init ==
    /\ numCPU = 2
    /\ runs = 0
    /\ faults = 0
    /\ dir \in {f \in [Days -> FileChoices] : \A d \in Days : d > 2 => f[d] = AbsentFile}
    /\ InitRun

Next ==
    \/ \E n \in DaysInputs, p \in ParInputs, f \in BOOLEAN : StartRun(n, p, f)
    \/ Launch
    \/ \E w \in Days : WorkerHas(w)
    \/ \E w \in Days : WorkerDelete(w)
    \/ \E w \in Days : ParseRow(w)
    \/ \E w \in Days : Flush(w)
    \/ \E w \in Days : WorkerUpsert(w)
    \/ \E w \in Days : GroupRecord(w)
    \/ Wait
    \/ CallerCancel

Spec == Init /\ [][Next]_vars

\* runs without force only: DeleteTradesByDate is never reached
NextNoForce ==
    \/ \E n \in DaysInputs, p \in ParInputs : StartRun(n, p, FALSE)
    \/ Launch
    \/ \E w \in Days : WorkerHas(w)
    \/ \E w \in Days : ParseRow(w)
    \/ \E w \in Days : Flush(w)
    \/ \E w \in Days : WorkerUpsert(w)
    \/ \E w \in Days : GroupRecord(w)
    \/ Wait
    \/ CallerCancel

SpecNoForce == Init /\ [][NextNoForce]_vars

\* one run over up to seven files, each holding a header only or a header
\* and one row; the store answers every call and the caller does not cancel
FanFiles ==
    {File("present", shortHeader, <<>>), File("present", HeaderLine, <<>>),
     File("present", HeaderLine, <<validRow>>)}
FanDaysInputs == 0..(MaxDays + 1)
FanParInputs == (0 - 1)..(MaxPar + 1)

InitFan ==
    /\ numCPU = 4
    /\ runs = MaxRuns - 1
    /\ faults = MaxFaults
    /\ dir \in {f \in [Days -> FanFiles] :
                 /\ \A d \in Days : f[d].header # HeaderLine => d = 2
                 /\ \A d \in Days : f[d].rows # <<>> <=> d = 1}
    /\ InitRun

NextFan ==
    \/ \E n \in FanDaysInputs, p \in FanParInputs :
          StartRun(n, p, FALSE)
    \/ Launch
    \/ \E w \in Days : WorkerHas(w)
    \/ \E w \in Days : ParseRow(w)
    \/ \E w \in Days : Flush(w)
    \/ \E w \in Days : WorkerUpsert(w)
    \/ \E w \in Days : GroupRecord(w)
    \/ Wait

SpecFan == InitFan /\ [][NextFan]_vars

\* one run over one file that exists; the file's header is the expected one
\* or a variation of it, its rows are well formed or not; a repository call
\* may fail and the caller may cancel
Padded(cell) == <<" ">> \o cell \o <<" ", " ">>
PadColumn(h, i) == [h EXCEPT ![i] = Padded(h[i])]
DropColumn(h, i) == SubSeq(h, 1, i - 1) \o SubSeq(h, i + 1, Len(h))
AddColumn(h, i, cell) == SubSeq(h, 1, i - 1) \o <<cell>> \o SubSeq(h, i, Len(h))
RenameColumn(h, i, cell) == [h EXCEPT ![i] = cell]
SwapColumns(h, i, j) == [h EXCEPT ![i] = h[j], ![j] = h[i]]
Columns == 1..Len(expectedHeaders)
GoodHeaders == {HeaderLine} \cup {PadColumn(HeaderLine, i) : i \in Columns}
BadHeaders ==
    ({<<>>, shortHeader}
     \cup {DropColumn(HeaderLine, i) : i \in Columns}
     \cup {AddColumn(HeaderLine, i, <<"X">>) : i \in 1..(Len(expectedHeaders) + 1)}
     \cup {RenameColumn(HeaderLine, i, <<"X">>) : i \in Columns}
     \cup {RenameColumn(HeaderLine, i, <<>>) : i \in Columns}
     \cup {SwapColumns(HeaderLine, i, j) : i, j \in Columns}) \ {HeaderLine}

\* the test's row of twelve cells (";PETR4;I;abc;100;;;;;;;"), and the valid
\* row with a price that is not a number
longRow ==
    << <<>>, <<"P", "E", "T", "R", "4">>, <<"I">>, <<"a", "b", "c">>,
       <<"1", "0", "0">>, <<>>, <<>>, <<>>, <<>>, <<>>, <<>>, <<>> >>
badPriceRow == WithCell(validRow, 4, <<"a", "b", "c">>)
MalformedRows == {shortRow, longRow, badPriceRow}
RowChoices == {validRow, emptyCellsRow, shortRow, badPriceRow}
RECURSIVE RowSeqs(_)
\* the sequences of at most n rows
RowSeqs(n) ==
    IF n = 0 THEN {<<>>}
    ELSE RowSeqs(n - 1)
         \cup {Append(q, r) : q \in {x \in RowSeqs(n - 1) : Len(x) = n - 1},
                              r \in RowChoices}
\* contents of the price cell: empty, blank, decimal with comma or point,
\* signed, with an exponent, padded; a word, the special values of
\* strconv.ParseFloat, two separators, a lone sign
PriceCells ==
    {<<>>, <<" ">>, <<"1", "0", ",", "5", "0">>, <<"1", "0", ".", "5">>,
     <<"-", "1", ",", "5">>, <<"1", "e", "3">>, <<" ", "7", " ">>,
     <<"a", "b", "c">>, <<"N", "a", "N">>, <<"i", "n", "f">>,
     <<"1", ".", "0", ",", "5">>, <<"-">>}
\* contents of the quantity cell: empty, blank, digits, zero, signed, padded;
\* a decimal, a word, an exponent
QuantityCells ==
    {<<>>, <<" ">>, <<"1", "0", "0">>, <<"0">>, <<"+", "5">>, <<"-", "5">>,
     <<" ", "7", " ">>, <<"-", "0">>, <<"1", ".", "5">>, <<"a", "b", "c">>,
     <<"1", "e", "3">>}
\* contents of the clock-time cell: empty, HHMMSS with and without sub-second
\* digits, padded, followed by letters, the last second of the day; five
\* digits, an hour, a minute, a second out of range, a letter among the
\* first six characters, letters only
ClockCells ==
    {<<>>, <<"1", "0", "1", "5", "3", "0", "0", "0", "0">>,
     <<"1", "0", "1", "5", "3", "0">>, <<" ", "1", "0", "1", "5", "3", "0", " ">>,
     <<"1", "0", "1", "5", "3", "0", "a", "b", "c">>,
     <<"2", "3", "5", "9", "5", "9", "9">>,
     <<"1", "0", "1", "5", "3">>, <<"2", "5", "0", "0", "0", "0">>,
     <<"1", "0", "6", "0", "0", "0">>, <<"1", "0", "1", "5", "6", "0">>,
     <<"1", "2", "a", "4", "5", "6", "7", "8", "9">>,
     <<"a", "b", "c", "d", "e", "f">>}
ParseFiles ==
    {File("present", h, <<validRow>>) : h \in BadHeaders}
    \cup {File("present", h, <<validRow, longRow>>) : h \in GoodHeaders}
    \cup {File("present", HeaderLine, q) : q \in RowSeqs(MaxRows)}
    \cup {File("present", HeaderLine, <<validRow, WithCell(validRow, 4, c)>>) :
             c \in PriceCells}
    \cup {File("present", HeaderLine, <<WithCell(validRow, 5, c)>>) :
             c \in QuantityCells}
    \cup {File("present", HeaderLine, <<WithCell(validRow, 6, c)>>) :
             c \in ClockCells}

InitParse ==
    /\ numCPU = 1
    /\ runs = MaxRuns - 1
    /\ faults = 0
    /\ dir \in {[d \in Days |-> IF d = 1 THEN f ELSE AbsentFile] : f \in ParseFiles}
    /\ InitRun

NextParse ==
    \/ StartRun(1, 1, FALSE)
    \/ Launch
    \/ \E w \in Days : WorkerHas(w)
    \/ \E w \in Days : ParseRow(w)
    \/ \E w \in Days : Flush(w)
    \/ \E w \in Days : WorkerUpsert(w)
    \/ \E w \in Days : GroupRecord(w)
    \/ Wait
    \/ CallerCancel

SpecParse == InitParse /\ [][NextParse]_vars

\* a call of LastNBusinessDays: n in 1..7, the reference instant any day of
\* the year, at midnight or at 12:30, in time.Local (as time.Now() is) or in
\* time.UTC
Locations == {"Local", "UTC"}
ClockChoices == {0, 45000}
CalInputs ==
    {[op |-> "LastNBusinessDays", n |-> n, from |-> Time(z, sec, loc)] :
        n \in 1..MaxDays,
        z \in DaysFromCivil(RefYear, 1, 1)..DaysFromCivil(RefYear, 12, 31),
        sec \in ClockChoices, loc \in Locations}

pipeline == <<dir, numCPU, ledger, trades, runs, mainpc, nDays, maxParallel,
              force, launched, sem, callerCancelled, gcancelled, gerr, worker,
              result, faults, calls, firstFailed, ledger0, trades0, prev>>

\* the pipeline at rest, for the specifications of the pure functions
InitAtRest ==
    /\ runs = 0
    /\ faults = 0
    /\ dir = [d \in Days |-> AbsentFile]
    /\ ledger = [d \in Days |-> NoEntry]
    /\ trades = NoTrades
    /\ mainpc = "idle"
    /\ nDays = 1
    /\ maxParallel = 1
    /\ force = FALSE
    /\ launched = 0
    /\ sem = 0
    /\ callerCancelled = FALSE
    /\ gcancelled = FALSE
    /\ gerr = NoErr
    /\ worker = [d \in Days |-> IdleWorker]
    /\ result = NoErr
    /\ calls = [d \in Days |-> NoCalls]
    /\ firstFailed = 0
    /\ ledger0 = ledger
    /\ trades0 = trades
    /\ prev = FALSE

InitCal == numCPU = 1 /\ InitAtRest /\ input \in CalInputs /\ output = NoCall

CallLastNBusinessDays ==
    /\ input.op = "LastNBusinessDays"
    /\ output = NoCall
    /\ output' = [op |-> "LastNBusinessDays",
                  dates |-> LastNBusinessDays(input.n, input.from)]
    /\ UNCHANGED <<input, pipeline>>

NextCal == CallLastNBusinessDays

SpecCal == InitCal /\ [][NextCal]_vars

\* a call of easterSunday, for every year of the range
InitEaster ==
    /\ numCPU = 1
    /\ InitAtRest
    /\ input \in {[op |-> "easterSunday", year |-> y] : y \in FirstYear..LastYear}
    /\ output = NoCall

CallEasterSunday ==
    /\ input.op = "easterSunday"
    /\ output = NoCall
    /\ output' = [op |-> "easterSunday", easter |-> easterSunday(input.year)]
    /\ UNCHANGED <<input, pipeline>>

NextEaster == CallEasterSunday

SpecEaster == InitEaster /\ [][NextEaster]_vars

\* a sequence of UpsertIngestionLog calls on a ledger that starts empty, for
\* two days, two filenames and every row count; a call may fail, and then
\* writes nothing.  output holds the rows of ingestion_log after the calls,
\* and as history the arguments of the latest successful call per day and
\* the number of such calls.
LedgerDays == {1, 2}
InitLedger ==
    /\ numCPU = 1
    /\ InitAtRest
    /\ input = NoCall
    /\ output = [op |-> "UpsertIngestionLog", rows |-> {}, calls |-> 0,
                 latest |-> [d \in Days |-> NoEntry], writes |-> [d \in Days |-> 0]]

CallUpsertIngestionLog ==
    /\ output.op = "UpsertIngestionLog"
    /\ output.calls < MaxCalls
    /\ \E d \in LedgerDays, fname \in LedgerDays, n \in 0..MaxRows, ok \in BOOLEAN :
        /\ input' = [op |-> "UpsertIngestionLog", date |-> d, filename |-> fname,
                      rowCount |-> n, ok |-> ok]
        /\ ledger' = IF ok THEN UpsertIngestionLog(ledger, d, fname, n) ELSE ledger
        /\ output' = [output EXCEPT
                        !.calls = @ + 1,
                        !.rows = IF ok THEN UpsertRows(@, d, fname, n) ELSE @,
                        !.latest = IF ok THEN [@ EXCEPT ![d] = [filename |-> fname,
                                                                rowCount |-> n]]
                                   ELSE @,
                        !.writes = IF ok THEN [@ EXCEPT ![d] = @ + 1] ELSE @]
    /\ UNCHANGED <<dir, numCPU, trades, runs, mainpc, nDays, maxParallel, force,
                   launched, sem, callerCancelled, gcancelled, gerr, worker,
                   result, faults, calls, firstFailed, ledger0, trades0, prev>>

NextLedger == CallUpsertIngestionLog

SpecLedger == InitLedger /\ [][NextLedger]_vars

\* One call of InsertTradesBatch, statement by statement.  input holds the
\* arguments (the day and the rows of the batch) and the trades table before
\* the call; output holds the position in the function (pc), the index of
\* the row sent next (k), the state of the transaction (tx) and of the
\* prepared statement (stmt), the rows sent inside the transaction (sent),
\* the rows other sessions see (table) and the error returned (err).  Every
\* statement may fail.  Rows sent inside a transaction become visible when
\* its commit succeeds; a rollback, or a commit that fails, discards them.
InsertDay == 1
InsertBatches ==
    {<<>>} \cup {b \in UNION {[1..n -> 1..2] : n \in 1..MaxRows} :
                    \A i \in 2..Len(b) : b[i] >= b[i - 1]}
InsertTables == {NoTrades, InsertTradesBatch(NoTrades, InsertDay, <<1>>)}

InitInsert ==
    /\ numCPU = 1
    /\ InitAtRest
    /\ input \in {[op |-> "InsertTradesBatch", day |-> InsertDay, trades |-> b, table |-> t] :
                    b \in InsertBatches, t \in InsertTables}
    /\ output = [op |-> "InsertTradesBatch", pc |-> "begin", k |-> 1, tx |-> "none",
                 stmt |-> "none", sent |-> <<>>, table |-> input.table, err |-> "none"]

\* tx.Rollback(): the transaction ends and what was sent in it is discarded
RollbackCommitting(o) ==
    [o EXCEPT !.tx = "committed", !.table = InsertTradesBatch(@, InsertDay, o.sent),
              !.sent = <<>>]
Rollback(o) == [o EXCEPT !.tx = "rolledback", !.sent = <<>>]
\* return err
ReturnError(o, at) == [o EXCEPT !.pc = "returned", !.err = at]

\* tx, err := r.db.Begin()
TxBegin ==
    /\ output.pc = "begin"
    /\ \E ok \in BOOLEAN :
        output' = IF ok THEN [output EXCEPT !.pc = "setlocal", !.tx = "open"]
                  ELSE ReturnError(output, "begin")
    /\ UNCHANGED <<input, pipeline>>

\* tx.Exec(`SET LOCAL synchronous_commit = OFF`)
TxSetLocal ==
    /\ output.pc = "setlocal"
    /\ \E ok \in BOOLEAN :
        output' = IF ok THEN [output EXCEPT !.pc = "prepare"]
                  ELSE ReturnError(Rollback(output), "setlocal")
    /\ UNCHANGED <<input, pipeline>>

\* stmt, err := tx.Prepare(pq.CopyIn("trades", ...))
TxPrepare ==
    /\ output.pc = "prepare"
    /\ \E ok \in BOOLEAN :
        output' = IF ok
                  THEN [output EXCEPT !.stmt = "open",
                                      !.pc = IF input.trades = <<>> THEN "finalexec"
                                             ELSE "row"]
                  ELSE ReturnError(Rollback(output), "prepare")
    /\ UNCHANGED <<input, pipeline>>

\* for _, rec := range trades { stmt.Exec(rec...) }: one iteration
StmtExecRow ==
    /\ output.pc = "row"
    /\ \E ok \in BOOLEAN :
        output' = IF ok
                  THEN [output EXCEPT !.sent = Append(@, input.trades[output.k]),
                                      !.k = @ + 1,
                                      !.pc = IF output.k = Len(input.trades)
                                             THEN "finalexec" ELSE "row"]
                  ELSE ReturnError(Rollback([output EXCEPT !.stmt = "closed"]), "row")
    /\ UNCHANGED <<input, pipeline>>

\* stmt.Exec(): the end of the copy
StmtExecFinal ==
    /\ output.pc = "finalexec"
    /\ \E ok \in BOOLEAN :
        output' = IF ok THEN [output EXCEPT !.pc = "close"]
                  ELSE ReturnError(Rollback([output EXCEPT !.stmt = "closed"]), "finalexec")
    /\ UNCHANGED <<input, pipeline>>

\* stmt.Close()
StmtClose ==
    /\ output.pc = "close"
    /\ \E ok \in BOOLEAN :
        output' = IF ok THEN [output EXCEPT !.pc = "commit", !.stmt = "closed"]
                  ELSE ReturnError(Rollback(output), "close")
    /\ UNCHANGED <<input, pipeline>>

\* return tx.Commit()
TxCommit ==
    /\ output.pc = "commit"
    /\ \E ok \in BOOLEAN :
        output' = IF ok
                  THEN [output EXCEPT !.pc = "returned", !.tx = "committed",
                                      !.table = InsertTradesBatch(@, input.day, output.sent),
                                      !.sent = <<>>]
                  ELSE ReturnError([output EXCEPT !.tx = "failed", !.sent = <<>>], "commit")
    /\ UNCHANGED <<input, pipeline>>

NextInsert ==
    \/ TxBegin
    \/ TxSetLocal
    \/ TxPrepare
    \/ StmtExecRow
    \/ StmtExecFinal
    \/ StmtClose
    \/ TxCommit

SpecInsert == InitInsert /\ [][NextInsert]_vars

\* The RateLimiter middleware, for the requests of one client IP.  input is
\* what surrounds the handler: the clock (time.Now()) and the requests that
\* have read the clock and not yet taken rateLimiterLock, counted per
\* reading.  output is the package's state, the entry of the IP in clients,
\* and the requests answered so far, each with the time it read (now), the
\* time of its answer (at), its status, whether it began a new count (fresh)
\* and the count it left.  Times are whole numbers of a unit of which the
\* window has `window`.
limit == 2
window == 3
MaxTime == 5
MaxRequests == 4
Times == 0..MaxTime
NoClient == [ok |-> FALSE, lastSeen |-> 0, count |-> 0]
StatusOK == 200
StatusTooManyRequests == 429

InitRate ==
    /\ numCPU = 1
    /\ InitAtRest
    /\ input = [op |-> "RateLimiter", clock |-> 0, pending |-> [t \in Times |-> 0]]
    /\ output = [op |-> "RateLimiter", client |-> NoClient, served |-> <<>>]

InFlightRequests == LET f[t \in (0 - 1)..MaxTime] ==
                            IF t < 0 THEN 0 ELSE f[t - 1] + input.pending[t]
                    IN  f[MaxTime]

\* time passes
Tick ==
    /\ input.op = "RateLimiter"
    /\ input.clock < MaxTime
    /\ input' = [input EXCEPT !.clock = @ + 1]
    /\ UNCHANGED <<output, pipeline>>

\* ip := c.ClientIP(); now := time.Now(): a request enters the handler
Arrive ==
    /\ input.op = "RateLimiter"
    /\ InFlightRequests + Len(output.served) < MaxRequests
    /\ input' = [input EXCEPT !.pending[input.clock] = @ + 1]
    /\ UNCHANGED <<output, pipeline>>

\* the critical section: a new count when the IP is unknown or was last
\* seen more than a window before now, one more on the count otherwise
StartsCount(cl, now) == ~cl.ok \/ now - cl.lastSeen > window
Counted(cl, now) ==
    IF StartsCount(cl, now) THEN [ok |-> TRUE, lastSeen |-> now, count |-> 1]
    ELSE [ok |-> TRUE, lastSeen |-> now, count |-> cl.count + 1]
exceeded(cl) == cl.count > limit

\* a request that has read the clock takes the lock, whichever of them gets
\* it, counts itself, releases the lock and is answered
Handle ==
    /\ input.op = "RateLimiter"
    /\ \E now \in Times :
        /\ input.pending[now] > 0
        /\ LET cl == Counted(output.client, now)
           IN  output' = [output EXCEPT
                            !.client = cl,
                            !.served = Append(@,
                                [now |-> now, at |-> input.clock,
                                 status |-> IF exceeded(cl) THEN StatusTooManyRequests
                                            ELSE StatusOK,
                                 fresh |-> StartsCount(output.client, now),
                                 count |-> cl.count])]
        /\ input' = [input EXCEPT !.pending[now] = @ - 1]
    /\ UNCHANGED pipeline

NextRate ==
    \/ Tick
    \/ Arrive
    \/ Handle

SpecRate == InitRate /\ [][NextRate]_vars

\* one run over one or two files that exist, the first of them fully valid
\* and either not yet ingested or ingested by an earlier successful run, with
\* the scheduler's guarantee that a step that can be taken is taken: the
\* launcher, the workers and the group wait for nothing but each other
LiveFiles == {f \in FileChoices : f.stat = "present"}
LiveDaysInputs == {1, 2}
LiveParInputs == {1, 2}
FullFile == File("present", HeaderLine, [i \in 1..MaxRows |-> validRow])
\* the store after a successful run over day 1 alone
IngestedLedger == UpsertIngestionLog([d \in Days |-> NoEntry], 1, 1, MaxRows)
IngestedTrades == InsertTradesBatch(NoTrades, 1, [i \in 1..MaxRows |-> i])

InitLive ==
    /\ numCPU = 2
    /\ runs = MaxRuns - 1
    /\ faults = MaxFaults - 1
    /\ dir \in {[d \in Days |-> IF d = 1 THEN FullFile ELSE IF d = 2 THEN f2 ELSE AbsentFile] :
                 f2 \in LiveFiles}
    /\ \E ingested \in BOOLEAN :
          /\ ledger = IF ingested THEN IngestedLedger ELSE [d \in Days |-> NoEntry]
          /\ trades = IF ingested THEN IngestedTrades ELSE NoTrades
    /\ mainpc = "idle"
    /\ nDays = 1
    /\ maxParallel = 1
    /\ force = FALSE
    /\ launched = 0
    /\ sem = 0
    /\ callerCancelled = FALSE
    /\ gcancelled = FALSE
    /\ gerr = NoErr
    /\ worker = [d \in Days |-> IdleWorker]
    /\ result = NoErr
    /\ calls = [d \in Days |-> NoCalls]
    /\ firstFailed = 0
    /\ ledger0 = ledger
    /\ trades0 = trades
    /\ prev = FALSE
    /\ input = NoCall
    /\ output = NoCall

NextLive ==
    \/ \E n \in LiveDaysInputs, p \in LiveParInputs, f \in BOOLEAN : StartRun(n, p, f)
    \/ Launch
    \/ \E w \in Days : WorkerHas(w)
    \/ \E w \in Days : WorkerDelete(w)
    \/ \E w \in Days : ParseRow(w)
    \/ \E w \in Days : Flush(w)
    \/ \E w \in Days : WorkerUpsert(w)
    \/ \E w \in Days : GroupRecord(w)
    \/ Wait
    \/ CallerCancel

\* the steps of a run in progress: every repository call and every read
\* returns, every goroutine that can run is run
Scheduled ==
    \/ Launch
    \/ \E w \in Days : WorkerHas(w)
    \/ \E w \in Days : WorkerDelete(w)
    \/ \E w \in Days : ParseRow(w)
    \/ \E w \in Days : Flush(w)
    \/ \E w \in Days : WorkerUpsert(w)
    \/ \E w \in Days : GroupRecord(w)
    \/ Wait

SpecLive == InitLive /\ [][NextLive]_vars /\ WF_vars(Scheduled)

\* a call of ProcessDirectory with any days and parallelism around the
\* clamps, on a machine with any number of CPUs, over a directory that holds
\* none of the expected files: the call returns at the presence check, with
\* the names of the files it expected
ClampInputs ==
    {[op |-> "ProcessDirectory", days |-> n, parallel |-> p] :
        n \in (0 - 2)..(MaxDays + 2), p \in (0 - 2)..(MaxPar + 2)}

InitClamp ==
    /\ numCPU \in 1..MaxCPU
    /\ InitAtRest
    /\ input \in ClampInputs
    /\ output = NoCall

CallProcessDirectory ==
    /\ input.op = "ProcessDirectory"
    /\ StartRun(input.days, input.parallel, FALSE)

NextClamp == CallProcessDirectory

SpecClamp == InitClamp /\ [][NextClamp]_vars

\* ------------------------------------------------------------ observations
InRun == mainpc # "idle"
Returned == mainpc = "returned"
RunningPcs == {"has", "delete", "parse", "flush", "finalflush", "upsert"}
InFlight == {w \in Days : worker[w].pc \in RunningPcs}
FaultKinds == {"check", "delete", "flush", "finalflush", "upsert"}
\* a repository call of worker w failed in this run
CallFailed(w) == worker[w].err.kind \in FaultKinds
HasFailed(w) == worker[w].err.kind = "check"
\* no repository call failed and the caller did not cancel, in this run
NoFaultThisRun == ~callerCancelled /\ \A w \in Days : ~CallFailed(w)
\* the parse of worker w returned without error, in this run
ParseReturnedOk(w) == worker[w].pc = "upsert" \/ calls[w].ups > 0
Range(s) == {s[i] : i \in 1..Len(s)}
\* the header of f names the eleven expected columns in order (white space
\* around a name aside)
Unpadded(cell) == SelectSeq(cell, LAMBDA ch : ch # " ")
HeaderNames(h) == [i \in 1..Len(h) |-> Unpadded(h[i])]
ExpectedHeader(f) == HeaderNames(f.header) = HeaderLine
\* the rows known to be well formed
WellFormedRows == {validRow, emptyCellsRow}
AllRowsOk(f) == \A i \in 1..Len(f.rows) : f.rows[i] \in WellFormedRows

\* ------------------------------------------------------------------ C1
\* C1: when a run without force returned success and the next run, again
\* without force, is over the same directory and the same days, the second
\* run makes no InsertTradesBatch, DeleteTradesByDate or UpsertIngestionLog
\* call at any moment, and it returns success; the one way for it to return
\* an error is a failing ledger query (HasIngestionForDate) of its own.
C1_Idempotent ==
    (InRun /\ prev) =>
        /\ \A d \in Days : calls[d].ins = 0 /\ calls[d].del = 0 /\ calls[d].ups = 0
        /\ trades = trades0 /\ ledger = ledger0
        /\ Returned => (result = Ok <=> \A w \in Days : ~HasFailed(w))

C1_Witness ==
    /\ prev /\ Returned /\ result = Ok /\ nDays = 2
    /\ calls[1].has = 1 /\ calls[2].has = 1
    /\ trades[1][MaxRows] = 1

\* ------------------------------------------------------------------ C3
\* C3: in a run with force, for a day that had a ledger entry when the run
\* started: DeleteTradesByDate is called at most once, it has been called
\* (and has returned without error) whenever the worker is parsing or has
\* made an InsertTradesBatch call, a worker that finished without error
\* called it exactly once, and once the parse has returned without error the
\* rows inserted for the file in this run number exactly its data rows.
C3_ForceDeleteFirst ==
    \A w \in Days :
        (InRun /\ force /\ ledger0[w] # NoEntry) =>
            /\ calls[w].del <= 1
            /\ calls[w].ins > 0 => calls[w].del = 1
            /\ worker[w].pc \in {"parse", "flush", "finalflush", "upsert"}
                    => calls[w].del = 1
            /\ (worker[w].pc = "done" /\ worker[w].err = NoErr) => calls[w].del = 1
            /\ ParseReturnedOk(w) =>
                    /\ calls[w].rows = Len(dir[w].rows)
                    /\ worker[w].total = Len(dir[w].rows)

C3_Witness ==
    /\ Returned /\ force /\ result = Ok /\ ledger0[1] # NoEntry
    /\ calls[1].del = 1 /\ calls[1].ins = 2 /\ calls[1].rows = MaxRows
    /\ trades0[1][1] = 1 /\ trades[1][1] = 1

\* ------------------------------------------------------------------ C4
\* C4: when an expected file is absent, ProcessDirectory has returned an
\* error, no worker was started and no repository call was made, whatever
\* the ledger holds and whatever force is; when in addition no stat of an
\* expected file failed for another reason, the error is the precondition
\* error and names exactly the absent files.
AbsentExpected == {d \in 1..nDays : dir[d].stat = "absent"}
C4_MissingFiles ==
    (InRun /\ AbsentExpected # {}) =>
        /\ Returned /\ result # Ok /\ result.kind \in {"missing", "stat"}
        /\ launched = 0 /\ sem = 0
        /\ \A w \in Days : worker[w] = IdleWorker /\ calls[w] = NoCalls
        /\ ledger = ledger0 /\ trades = trades0
        /\ (\A d \in 1..nDays : dir[d].stat # "staterr") =>
                /\ result.kind = "missing"
                /\ Range(result.names) = AbsentExpected
                /\ Len(result.names) = Cardinality(AbsentExpected)

C4_Witness ==
    /\ Returned /\ nDays = 3 /\ result.kind = "missing"
    /\ result.names = <<2, 3>> /\ dir[1].stat = "present"
    /\ ledger[1] # NoEntry /\ force

\* ------------------------------------------------------------------ C2
\* C2: after any sequence of runs without force, failed ones included, no
\* data row of a file is persisted more than once.
C2_ExactlyOnce ==
    \A d \in Days : \A i \in 1..MaxRows : trades[d][i] <= 1

\* ------------------------------------------------------------------ C5
\* C5: once ProcessDirectory has returned from a run that started workers:
\* it returns the error of the worker whose failure reached the group first
\* (a worker fails when its function returns a non-nil error to the group);
\* it returns success exactly when no worker returned an error; and unless
\* the caller cancelled its own signal, the returned error is not a
\* cancellation error.
C5_FirstError ==
    (Returned /\ launched > 0) =>
        /\ firstFailed # 0 => result = worker[firstFailed].err
        /\ result = Ok <=> \A w \in Days : worker[w].err = NoErr
        /\ result = Ok <=> firstFailed = 0
        /\ (~callerCancelled /\ result # Ok) => result.kind # "canceled"

C5_Witness ==
    /\ Returned /\ ~callerCancelled /\ nDays = 2
    /\ firstFailed = 2 /\ result = worker[2].err /\ result.kind = "row"
    /\ worker[1].err.kind = "canceled"

\* ------------------------------------------------------------------ C6
\* C6: when ProcessDirectory has returned, with or without an error, every
\* worker it launched has exited and has handed its error to the group: no
\* worker is at a step from which it could still call the repository, and
\* all semaphore slots are free.
C6_ReturnAfterWorkers ==
    Returned =>
        /\ \A w \in Days : worker[w].pc \in {"idle", "done"}
        /\ \A w \in 1..launched : worker[w].pc = "done"
        /\ InFlight = {}

C6_Witness ==
    /\ Returned /\ result # Ok /\ launched = 2
    /\ calls[1].ins > 0 /\ calls[2].has = 1 /\ worker[1].err.kind = "canceled"

\* ------------------------------------------------------------------ C7
\* C7: at every moment the workers admitted and not yet exited number at
\* most the effective parallelism, which lies in 1..7, and they are as many
\* as the tokens the semaphore holds.
C7_BoundedParallelism ==
    InRun =>
        /\ Cardinality(InFlight) <= maxParallel
        /\ Cardinality(InFlight) = sem
        /\ maxParallel \in 1..MaxPar

C7_Witness ==
    /\ nDays = 7 /\ maxParallel = 3 /\ Cardinality(InFlight) = 3
    /\ launched = 5 /\ worker[2].pc = "done" /\ worker[2].err.kind = "header"

\* ------------------------------------------------------------------ C8
\* C8: in a run without force, for a day that had a ledger entry when the
\* run started: no DeleteTradesByDate, InsertTradesBatch or
\* UpsertIngestionLog call is made for it, its persisted trades and its
\* ledger entry stay as they were, and once the ledger query has answered,
\* the worker is done with no error and has not cancelled the group.
C8_SkipIngested ==
    \A w \in Days :
        (InRun /\ ~force /\ ledger0[w] # NoEntry) =>
            /\ calls[w].del = 0 /\ calls[w].ins = 0 /\ calls[w].ups = 0
            /\ trades[w] = trades0[w] /\ ledger[w] = ledger0[w]
            /\ worker[w].pc \in {"idle", "has", "failed", "done"}
            /\ (calls[w].has = 1 /\ ~HasFailed(w)) =>
                    /\ worker[w].pc = "done" /\ worker[w].err = NoErr
                    /\ firstFailed # w

C8_Witness ==
    /\ ~force /\ ledger0[1] # NoEntry /\ ledger0[2] = NoEntry /\ nDays = 2
    /\ worker[1].pc = "done" /\ calls[1].has = 1 /\ worker[1].err = NoErr
    /\ trades0[1][1] = 1 /\ worker[2].pc = "parse" /\ ~Cancelled

\* ------------------------------------------------------------------ C9
\* C9: UpsertIngestionLog is called for a file at most once in a run, and
\* only after its parse returned without error: the header was the expected
\* one, every data row was well formed, every row was inserted and the
\* buffer is empty; a worker that failed at the ledger query, at the delete,
\* at the header, at a row, at a flush or on cancellation has made no ledger
\* write, and its day's ledger entry is as it was when the run started.
C9_UpsertAfterParse ==
    \A w \in Days :
        InRun =>
            /\ calls[w].ups <= 1
            /\ calls[w].ups > 0 =>
                    /\ ExpectedHeader(dir[w]) /\ AllRowsOk(dir[w])
                    /\ calls[w].rows = Len(dir[w].rows)
                    /\ worker[w].total = Len(dir[w].rows)
                    /\ worker[w].buf = <<>>
                    /\ worker[w].err.kind \in {"none", "upsert"}
            /\ worker[w].err.kind \in
                    {"check", "delete", "header", "row", "flush", "finalflush", "canceled"}
                    => (calls[w].ups = 0 /\ ledger[w] = ledger0[w])
            /\ ledger[w] # ledger0[w] => (calls[w].ups = 1 /\ worker[w].err = NoErr)

C9_Witness ==
    /\ Returned /\ nDays = 2
    /\ calls[1].ups = 1 /\ calls[1].rows = MaxRows /\ ledger[1] # NoEntry
    /\ worker[2].err.kind = "row" /\ calls[2].ups = 0 /\ calls[2].ins = 1
    /\ ledger[2] = NoEntry

\* ----------------------------------------------------------------- C10
\* the case of C10: a run over two files, neither ingested when the run
\* started, file bad with a malformed row and file good fully valid, in
\* which no repository call fails and the caller does not cancel
C10_Case(bad, good) ==
    /\ Returned /\ nDays = 2 /\ NoFaultThisRun
    /\ ledger0[bad] = NoEntry /\ ledger0[good] = NoEntry
    /\ ExpectedHeader(dir[bad]) /\ ~AllRowsOk(dir[bad])
    /\ ExpectedHeader(dir[good]) /\ AllRowsOk(dir[good])

\* C10 as claimed: the run ends with a ledger entry for the valid file's day.
C10_ValidAlwaysIngested ==
    \A bad, good \in 1..2 :
        (bad # good /\ C10_Case(bad, good)) => ledger[good] # NoEntry

\* C10 as amended: the run returns the malformed row's error and leaves no
\* ledger entry for the malformed file's day; the valid file's day has a
\* ledger entry exactly when its worker finished without observing the
\* cancellation, and otherwise that worker returned the cancellation error.
C10_ValidIngestedUnlessCancelled ==
    \A bad, good \in 1..2 :
        (bad # good /\ C10_Case(bad, good)) =>
            /\ result = Err("row", bad, Len(dir[bad].rows) + 1)
            /\ ledger[bad] = NoEntry
            /\ ledger[good] # NoEntry <=> worker[good].err = NoErr
            /\ worker[good].err.kind \in {"none", "canceled"}
            /\ ledger[good] # NoEntry =>
                    ledger[good] = [filename |-> good, rowCount |-> Len(dir[good].rows)]

\* the cancelled case, at parallelism 1 and at parallelism 7
C10_Witness ==
    /\ C10_Case(1, 2) /\ maxParallel = 1 /\ ledger[2] = NoEntry
    /\ worker[2].err.kind = "canceled" /\ Len(dir[2].rows) = MaxRows

\* ----------------------------------------------------------------- C11
\* C11: a file whose header does not name the eleven expected columns in the
\* expected order (a column missing, added, renamed or moved; names are
\* compared with the white space around them trimmed) is rejected before
\* any row is read: the parse is never in its row loop, the row count stays
\* 0, no InsertTradesBatch and no UpsertIngestionLog call is made, no row of
\* the file is persisted, and once the ledger query has answered the worker
\* has failed with the header error.
C11_HeaderRejected ==
    \A w \in Days :
        (InRun /\ dir[w].stat = "present" /\ ~ExpectedHeader(dir[w])) =>
            /\ worker[w].pc \in {"idle", "has", "failed", "done"}
            /\ worker[w].total = 0 /\ worker[w].line = 1 /\ worker[w].buf = <<>>
            /\ calls[w].ins = 0 /\ calls[w].rows = 0 /\ calls[w].ups = 0
            /\ trades[w] = trades0[w] /\ ledger[w] = ledger0[w]
            /\ (calls[w].has = 1 /\ ~HasFailed(w)) =>
                    worker[w].err = Err("header", w, 1)
            /\ (Returned /\ launched > 0) => result # Ok

C11_Witness ==
    /\ Returned /\ dir[1].header = SwapColumns(HeaderLine, 4, 5)
    /\ dir[1].rows = <<validRow>>
    /\ result = Err("header", 1, 1) /\ trades[1] = NoTrades[1]

\* ----------------------------------------------------------------- C12
\* the first malformed row of f (0: none)
FirstMalformed(f) ==
    IF AllRowsOk(f) THEN 0
    ELSE CHOOSE k \in 1..Len(f.rows) :
            /\ f.rows[k] \notin WellFormedRows
            /\ \A j \in 1..(k - 1) : f.rows[j] \in WellFormedRows
KnownRows(f) == \A i \in 1..Len(f.rows) : f.rows[i] \in WellFormedRows \cup MalformedRows

\* C12: for a file with the expected header whose first malformed row is its
\* k-th data row (wrong column count or unparsable cell), with batch size B:
\* the parse reads no row after the k-th, makes no UpsertIngestionLog and no
\* DeleteTradesByDate call, and the rows it has persisted are at every
\* moment its first rows, at most F = B * floor((k-1)/B) of them, each once;
\* when it has failed at the row, the error names line k+1, exactly the
\* first F rows are persisted, in floor((k-1)/B) calls, and the rows from
\* F+1 to k-1 are still in the buffer, never inserted; unless a repository
\* call fails or the signal is set first, the parse ends with that error.
C12_PartialBatches ==
    \A w \in Days :
        (InRun /\ ExpectedHeader(dir[w]) /\ KnownRows(dir[w])
               /\ FirstMalformed(dir[w]) # 0) =>
            LET k == FirstMalformed(dir[w])
                F == BatchSize * ((k - 1) \div BatchSize)
            IN  /\ worker[w].line <= k + 1
                /\ calls[w].ups = 0 /\ calls[w].del = 0
                /\ calls[w].rows <= F
                /\ \A i \in 1..MaxRows :
                        trades[w][i] = trades0[w][i] + (IF i <= calls[w].rows THEN 1 ELSE 0)
                /\ worker[w].err.kind = "row" =>
                        /\ worker[w].err = Err("row", w, k + 1)
                        /\ calls[w].rows = F
                        /\ calls[w].ins = (k - 1) \div BatchSize
                        /\ worker[w].buf = [i \in 1..(k - 1 - F) |-> F + i]
                /\ worker[w].pc = "done" =>
                        worker[w].err.kind \in {"row", "check", "flush", "canceled"}

C12_Witness ==
    /\ Returned /\ FirstMalformed(dir[1]) = MaxRows /\ MaxRows > BatchSize
    /\ dir[1].rows[MaxRows] = badPriceRow
    /\ result = Err("row", 1, MaxRows + 1)
    /\ calls[1].rows = BatchSize /\ trades[1][BatchSize] = 1
    /\ trades[1][MaxRows] = 0

\* ----------------------------------------------------------------- C13
\* what holds once a parse has returned the cancellation error
C13_AfterCancel ==
    \A w \in Days :
        worker[w].err.kind = "canceled" =>
            /\ worker[w].pc \in {"failed", "done"}
            /\ calls[w].ups = 0
            /\ calls[w].rows = BatchSize * ((worker[w].line - 1) \div BatchSize)
            /\ worker[w].buf =
                  [i \in 1..(worker[w].line - 1 - calls[w].rows) |-> calls[w].rows + i]
            /\ worker[w].line = 1 => calls[w].ins = 0
\* the step of a parse that is about to read a row
C13_Step ==
    \A w \in Days :
        /\ (worker[w].pc = "parse" /\ (callerCancelled \/ gcancelled)
                /\ worker'[w] # worker[w]) =>
              /\ worker'[w].pc = "failed"
              /\ worker'[w].err = Err("canceled", w, 0)
              /\ calls' = calls /\ trades' = trades /\ ledger' = ledger
        /\ (worker[w].err.kind = "canceled" /\ worker'[w].err.kind = "canceled") =>
              /\ calls'[w] = calls[w] /\ trades'[w] = trades[w]

\* C13: a parse that is about to read a row while the signal is set returns
\* the cancellation error in that step, with no repository call; from then
\* on it makes no InsertTradesBatch call: the rows persisted stay the full
\* batches flushed before, the rows read after the last flush stay in the
\* buffer (no final flush), and a parse that found the signal set before its
\* first row has inserted nothing.
C13_CancelStopsParse == []C13_AfterCancel /\ [][C13_Step]_vars

C13_Witness ==
    /\ Returned /\ callerCancelled /\ worker[1].err.kind = "canceled"
    /\ worker[1].line = MaxRows + 1 /\ MaxRows % BatchSize # 0
    /\ Len(worker[1].buf) = MaxRows % BatchSize
    /\ trades[1][MaxRows] = 0 /\ trades[1][1] = 1

\* ----------------------------------------------------------------- C14
\* the calendar days of the movable holidays of year y
MovableDays(y) ==
    LET easter == easterSunday(y).day
    IN  {easter - 48, easter - 47, easter - 2, easter + 60}
\* day z is a Saturday, a Sunday, a fixed or a movable holiday
NonBusiness(z) ==
    \/ (z + 4) % 7 \in {0, 6}
    \/ <<CivilFromDays(z).month, CivilFromDays(z).day>> \in fixed
    \/ z \in MovableDays(CivilFromDays(z).year)

\* C14: for every n in 1..7 and every reference instant,
\* LastNBusinessDays(n, ref) returns exactly n dates, strictly decreasing,
\* none a Saturday, a Sunday, a fixed national holiday or a movable holiday
\* of its year.
C14_BusinessDays ==
    output # NoCall =>
        /\ Len(output.dates) = input.n
        /\ \A i \in 2..Len(output.dates) : output.dates[i].day < output.dates[i - 1].day
        /\ \A i \in 1..Len(output.dates) : ~NonBusiness(output.dates[i].day)

\* the same, for the reference instants that carry time.Local
C14_LocalBusinessDays == input.from.loc = "Local" => C14_BusinessDays

\* ----------------------------------------------------------------- C15
\* C15: when HasIngestionForDate has failed for a file, its worker has made
\* that one repository call and no other (no DeleteTradesByDate,
\* InsertTradesBatch or UpsertIngestionLog), the day's trades and ledger
\* entry are as they were, and once ProcessDirectory has returned it has
\* returned an error.
C15_HasFailure ==
    \A w \in Days :
        (InRun /\ HasFailed(w)) =>
            /\ calls[w] = [NoCalls EXCEPT !.has = 1]
            /\ worker[w].pc \in {"failed", "done"}
            /\ trades[w] = trades0[w] /\ ledger[w] = ledger0[w]
            /\ Returned => (result # Ok /\ result.kind \notin {"none", "running"})

C15_Witness ==
    /\ Returned /\ force /\ ledger0[1] # NoEntry /\ trades0[1][1] = 1
    /\ worker[1].err = Err("check", 1, 0) /\ result = Err("check", 1, 0)
    /\ calls[1].del = 0 /\ trades[1][1] = 1

\* ----------------------------------------------------------------- C16
\* C16: when UpsertIngestionLog has failed for a file, its parse had
\* succeeded: all its data rows were inserted in this run, and they stay
\* persisted (each at least once), the day's ledger entry is as it was when
\* the run started, and once ProcessDirectory has returned it has returned
\* an error; in particular a returned run in which a day without a ledger
\* entry had its upsert called and still has no entry returned an error.
C16_UpsertFailure ==
    \A w \in Days :
        /\ (InRun /\ worker[w].err.kind = "upsert") =>
              /\ calls[w].ups = 1
              /\ calls[w].rows = Len(dir[w].rows)
              /\ \A i \in 1..Len(dir[w].rows) : trades[w][i] >= 1
              /\ ledger[w] = ledger0[w]
              /\ worker[w].pc \in {"failed", "done"}
        /\ (Returned /\ calls[w].ups = 1 /\ ledger[w] = NoEntry) => result # Ok

C16_Witness ==
    /\ Returned /\ worker[1].err = Err("upsert", 1, 0) /\ result = Err("upsert", 1, 0)
    /\ ledger[1] = NoEntry /\ calls[1].rows = MaxRows
    /\ \A i \in 1..MaxRows : trades[1][i] = 1

\* ----------------------------------------------------------------- C19
\* C19: every run that has started returns, and when it has returned all
\* semaphore slots are free.
C19_Terminates == (InRun ~> Returned) /\ [](Returned => sem = 0)

C19_Witness ==
    /\ Returned /\ nDays = 2 /\ maxParallel = 1 /\ sem = 0 /\ ~force
    /\ ledger0[1] # NoEntry /\ calls[1] = [NoCalls EXCEPT !.has = 1]
    /\ worker[1].err = NoErr /\ worker[2].err.kind = "row"

\* ----------------------------------------------------------------- C20
\* the repository calls one worker has made in a run
C20_Counts ==
    \A w \in Days :
        /\ calls[w].has <= 1 /\ calls[w].del <= 1 /\ calls[w].ups <= 1
        /\ (calls[w].del + calls[w].ins + calls[w].ups > 0) => calls[w].has = 1
\* a step in which a worker makes a repository call
C20_Step ==
    \A w \in Days :
        /\ calls'[w].has > calls[w].has => calls[w] = NoCalls
        /\ calls'[w].del > calls[w].del =>
              (calls[w].has = 1 /\ calls[w].del = 0 /\ calls[w].ins = 0 /\ calls[w].ups = 0)
        /\ calls'[w].ins > calls[w].ins => (calls[w].has = 1 /\ calls[w].ups = 0)
        /\ calls'[w].ups > calls[w].ups => (calls[w].has = 1 /\ calls[w].ups = 0)
        /\ (calls'[w].has > calls[w].has \/ calls'[w].del > calls[w].del
                \/ calls'[w].ins > calls[w].ins \/ calls'[w].ups > calls[w].ups) =>
              /\ worker[w].err = NoErr
              /\ calls'[w].has + calls'[w].del + calls'[w].ins + calls'[w].ups
                   = calls[w].has + calls[w].del + calls[w].ins + calls[w].ups + 1
              /\ \A v \in Days \ {w} : calls'[v] = calls[v]

\* C20: within one worker the repository calls come in the order
\* HasIngestionForDate (once), DeleteTradesByDate (at most once),
\* InsertTradesBatch (any number), UpsertIngestionLog (at most once); a call
\* is made only when the calls before it have returned without error, one
\* call at a time, and a call that failed is not made again.
C20_CallOrder == []C20_Counts /\ [][C20_Step]_vars

C20_Witness ==
    /\ Returned /\ force /\ result = Ok
    /\ calls[1].has = 1 /\ calls[1].del = 1 /\ calls[1].ins = 2
    /\ calls[1].rows = MaxRows /\ calls[1].ups = 1

\* ----------------------------------------------------------------- C17
\* price cells that hold no number
NonNumericCells ==
    {<<"a", "b", "c">>, <<"N", "a", "N">>, <<"i", "n", "f">>,
     <<"1", ".", "0", ",", "5">>, <<"-">>}
\* row r has eleven cells, its price, quantity and clock-time cells empty
EmptyNumerics(r) ==
    /\ Len(r) = Len(expectedHeaders)
    /\ Unpadded(r[4]) = <<>> /\ Unpadded(r[5]) = <<>> /\ Unpadded(r[6]) = <<>>
\* the parse of worker w has ended with no repository call failing and the
\* signal not set
ParseEnded(w) ==
    /\ worker[w].pc \in {"upsert", "done"}
    /\ worker[w].err.kind \notin {"check", "delete", "flush", "finalflush", "canceled"}
    /\ calls[w].has = 1

\* what C17 says of the rows with empty numeric cells: the row converts
\* without error to price 0, quantity 0 and no closing time, and when the
\* parse of a file of well-formed rows has ended, the row is counted and
\* inserted
C17_EmptyCellsAccepted ==
    \A w \in Days : \A k \in 1..Len(dir[w].rows) :
        (InRun /\ ExpectedHeader(dir[w]) /\ AllRowsOk(dir[w])
               /\ EmptyNumerics(dir[w].rows[k])) =>
            /\ recordToTrade(dir[w].rows[k]).err = "none"
            /\ recordToTrade(dir[w].rows[k]).TradePrice = Zero
            /\ recordToTrade(dir[w].rows[k]).TradeQuantity = 0
            /\ recordToTrade(dir[w].rows[k]).ClosingTime = ZeroClock
            /\ ParseEnded(w) =>
                  /\ worker[w].err.kind \in {"none", "upsert"}
                  /\ worker[w].total = Len(dir[w].rows)
                  /\ trades[w][k] = trades0[w][k] + 1

\* what C17 says of the rows with a price that is not a number: when the
\* parse of the file has ended, it has failed
C17_NonNumericRejected ==
    \A w \in Days : \A k \in 1..Len(dir[w].rows) :
        (InRun /\ ExpectedHeader(dir[w])
               /\ Len(dir[w].rows[k]) = Len(expectedHeaders)
               /\ dir[w].rows[k][4] \in NonNumericCells
               /\ ParseEnded(w)) =>
            /\ worker[w].err.kind = "row"
            /\ calls[w].ups = 0

\* C17: a data row whose price, quantity and clock-time cells are empty is
\* parsed without error to price 0, quantity 0 and absent closing time, and
\* is counted and inserted; a data row whose price cell is non-empty and not
\* numeric makes the whole file fail with an error.
C17_EmptyAndNonNumeric == C17_EmptyCellsAccepted /\ C17_NonNumericRejected

\* ----------------------------------------------------------------- C18
Min(a, b) == IF a < b THEN a ELSE b
Max(a, b) == IF a > b THEN a ELSE b

\* C18: for the days and parallelism given to ProcessDirectory, the number
\* of expected files is min(max(days, 1), 7), the effective parallelism is
\* min(parallelism, 7) when parallelism > 0 and min(7, CPUs) otherwise, and
\* both lie in 1..7.
C18_Clamped ==
    (input.op = "ProcessDirectory" /\ InRun) =>
        /\ nDays = Min(Max(input.days, 1), 7)
        /\ result.kind = "missing" /\ Len(result.names) = nDays
        /\ maxParallel = IF input.parallel > 0 THEN Min(input.parallel, 7)
                         ELSE Min(7, numCPU)
        /\ nDays \in 1..7 /\ maxParallel \in 1..7

C18_Witness ==
    /\ Returned /\ input.days = MaxDays + 2 /\ input.parallel = 0 /\ numCPU = MaxCPU
    /\ nDays = MaxDays /\ maxParallel = MaxPar /\ Len(result.names) = MaxDays

\* ----------------------------------------------------------------- C21
RECURSIVE Flatten(_)
\* the batches of bs, concatenated in call order
Flatten(bs) == IF bs = <<>> THEN <<>> ELSE Head(bs) \o Flatten(Tail(bs))
CeilDiv(n, b) == (n + b - 1) \div b
\* the first n data rows, in file order
FirstRows(n) == [i \in 1..n |-> i]

\* C21: for a file with the expected header and N well-formed data rows, at
\* batch size B: every InsertTradesBatch call carries between 1 and B rows,
\* every call but the last exactly B, and the batches concatenated in call
\* order are at every moment the first rows of the file in file order; when
\* the parse has returned without error the calls number ceil(N/B) and the
\* batches concatenated are all the N rows.
C21_Batches ==
    \A w \in Days :
        (InRun /\ ExpectedHeader(dir[w]) /\ AllRowsOk(dir[w])) =>
            LET N == Len(dir[w].rows)
                bs == calls[w].batches
            IN  /\ Len(bs) = calls[w].ins
                /\ \A i \in 1..Len(bs) : Len(bs[i]) >= 1 /\ Len(bs[i]) <= BatchSize
                /\ \A i \in 1..(Len(bs) - 1) : Len(bs[i]) = BatchSize
                /\ Len(Flatten(bs)) <= N
                /\ Flatten(bs) = FirstRows(Len(Flatten(bs)))
                /\ ParseReturnedOk(w) =>
                        /\ Len(bs) = CeilDiv(N, BatchSize)
                        /\ Flatten(bs) = FirstRows(N)

C21_Witness ==
    /\ Returned /\ result = Ok /\ Len(dir[1].rows) = MaxRows
    /\ MaxRows > BatchSize /\ MaxRows < 2 * BatchSize
    /\ calls[1].batches = <<FirstRows(BatchSize),
                            [i \in 1..(MaxRows - BatchSize) |-> BatchSize + i]>>

\* ----------------------------------------------------------------- C22
RECURSIVE SumLen(_)
\* the sizes of the batches of bs, added up
SumLen(bs) == IF bs = <<>> THEN 0 ELSE Len(Head(bs)) + SumLen(Tail(bs))
\* the errors parseAndPersistFile returns
ParseErrKinds == {"header", "row", "flush", "finalflush", "canceled"}

\* C22: when the parse of a file has returned without error, its row count
\* is the sum of the sizes of the batches it passed to InsertTradesBatch
\* and the number of data rows of the file, and an upsert that succeeded
\* wrote a ledger entry with that row count; for a header-only file that is
\* row count 0 with no InsertTradesBatch call.  When the parse has returned
\* an error, its row count is 0.
C22_RowCount ==
    \A w \in Days :
        (InRun /\ dir[w].stat = "present") =>
            /\ ParseReturnedOk(w) =>
                    /\ worker[w].total = SumLen(calls[w].batches)
                    /\ worker[w].total = Len(dir[w].rows)
                    /\ worker[w].total = calls[w].rows
                    /\ dir[w].rows = <<>> => (worker[w].total = 0 /\ calls[w].ins = 0)
            /\ (calls[w].ups = 1 /\ worker[w].err = NoErr /\ worker[w].pc = "done") =>
                    ledger[w] = [filename |-> w, rowCount |-> worker[w].total]
            /\ worker[w].err.kind \in ParseErrKinds => worker[w].total = 0

C22_Witness ==
    /\ Returned /\ result = Ok /\ dir[1].header = HeaderLine /\ dir[1].rows = <<>>
    /\ calls[1].ins = 0 /\ calls[1].ups = 1
    /\ ledger[1] = [filename |-> 1, rowCount |-> 0]

\* ----------------------------------------------------------------- C23
\* an InsertTradesBatch call of worker w failed in this run: a batch was
\* handed over and its rows were not stored
InsertFailed(w) == calls[w].rows < SumLen(calls[w].batches)
\* what holds once an InsertTradesBatch call has failed
C23_AfterFailure ==
    \A w \in Days :
        InsertFailed(w) =>
            /\ worker[w].pc \in {"failed", "done"}
            /\ worker[w].err.kind \in {"flush", "finalflush"}
            /\ calls[w].ups = 0 /\ ledger[w] = ledger0[w]
            /\ calls[w].ins = Len(calls[w].batches)
            /\ calls[w].rows = SumLen(SubSeq(calls[w].batches, 1, calls[w].ins - 1))
            /\ worker[w].buf = calls[w].batches[calls[w].ins]
            /\ worker[w].line = calls[w].rows + Len(worker[w].buf) + 1
            /\ \A i \in 1..MaxRows :
                    trades[w][i] = (IF calls[w].del = 1 THEN 0 ELSE trades0[w][i])
                                     + (IF i <= calls[w].rows THEN 1 ELSE 0)
            /\ Returned => result # Ok
\* the steps of a worker whose InsertTradesBatch call fails or has failed
C23_Step ==
    \A w \in Days :
        /\ (~InsertFailed(w) /\ InsertFailed(w)') =>
              /\ worker[w].pc \in {"flush", "finalflush"}
              /\ worker'[w].pc = "failed"
              /\ worker'[w].err.kind = worker[w].pc
              /\ worker'[w].line = worker[w].line
              /\ trades' = trades /\ ledger' = ledger
        /\ (InsertFailed(w) /\ InsertFailed(w)') =>
              /\ calls'[w] = calls[w] /\ worker'[w].line = worker[w].line
              /\ trades'[w] = trades[w] /\ ledger'[w] = ledger[w]

\* C23: when an InsertTradesBatch call fails, at a full-buffer flush or at
\* the final flush, the parse returns that error in the same step; from then
\* on the worker reads no row and makes no repository call: the failed batch
\* is not handed over again, its rows are not stored, no UpsertIngestionLog
\* call is made and the run returns an error.
C23_InsertFailure == []C23_AfterFailure /\ [][C23_Step]_vars

C23_Witness ==
    /\ Returned /\ InsertFailed(1) /\ BatchSize < MaxRows
    /\ Len(dir[1].rows) = MaxRows /\ AllRowsOk(dir[1])
    /\ result = Err("flush", 1, BatchSize + 1)
    /\ calls[1].ins = 1 /\ trades[1] = NoTrades[1] /\ ledger[1] = NoEntry

\* ----------------------------------------------------------------- C24
\* C24: when DeleteTradesByDate has failed for a day (the run is forced and
\* the day had a ledger entry), its worker has made the ledger query and
\* that one delete call and nothing else: the file is not parsed (no row
\* read, no InsertTradesBatch, no UpsertIngestionLog), the day's ledger
\* entry and its persisted trades are as they were when the run started,
\* and once ProcessDirectory has returned it has returned an error.
C24_DeleteFailure ==
    \A w \in Days :
        (InRun /\ worker[w].err.kind = "delete") =>
            /\ force /\ ledger0[w] # NoEntry
            /\ calls[w] = [NoCalls EXCEPT !.has = 1, !.del = 1]
            /\ worker[w].pc \in {"failed", "done"}
            /\ worker[w].line = 1 /\ worker[w].total = 0 /\ worker[w].buf = <<>>
            /\ ledger[w] = ledger0[w] /\ trades[w] = trades0[w]
            /\ Returned => (result # Ok /\ result.kind \notin {"none", "running"})

C24_Witness ==
    /\ Returned /\ force /\ worker[1].err = Err("delete", 1, 0)
    /\ result = Err("delete", 1, 0)
    /\ ledger[1] = [filename |-> 1, rowCount |-> MaxRows]
    /\ trades0[1][MaxRows] = 1 /\ trades[1][MaxRows] = 1

\* ----------------------------------------------------------------- C25
\* C25: when the parse of a file has failed at a malformed data row, the
\* error names a line of the file, the header being line 1: the line named
\* is that of the first malformed data row, so that for the k-th data row
\* it is k+1; the rows on the lines before it are well formed; and a run
\* whose first failure is this one returns the error with that line.
C25_LineNamed ==
    \A w \in Days :
        (InRun /\ ExpectedHeader(dir[w]) /\ KnownRows(dir[w])
               /\ worker[w].err.kind = "row") =>
            LET ln == worker[w].err.line
            IN  /\ ln \in 2..(Len(dir[w].rows) + 1)
                /\ dir[w].rows[ln - 1] \in MalformedRows
                /\ \A j \in 2..(ln - 1) : dir[w].rows[j - 1] \in WellFormedRows
                /\ worker[w].err.file = w
                /\ (Returned /\ firstFailed = w) =>
                        (result.kind = "row" /\ result.file = w /\ result.line = ln)

C25_Witness ==
    /\ Returned /\ MaxRows >= 3
    /\ dir[1].rows = [i \in 1..MaxRows |-> IF i = 2 THEN shortRow ELSE validRow]
    /\ result.kind = "row" /\ result.line = 3 /\ worker[1].line = 3

\* ----------------------------------------------------------------- C26
\* the calendar days of the dates returned by the call
ReturnedDays == [i \in 1..Len(output.dates) |-> output.dates[i].day]

\* what C26 says of completeness: the first date returned is the date of ref
\* when that is a business day, every business day from the last date
\* returned up to the date of ref is among the dates returned, each date is
\* a midnight, and the call at another time of the same day returns the same
C26_NoneSkipped ==
    output # NoCall =>
        /\ Len(output.dates) = input.n
        /\ ~NonBusiness(input.from.day) => ReturnedDays[1] = input.from.day
        /\ \A i \in 1..Len(output.dates) :
                ReturnedDays[i] <= input.from.day /\ output.dates[i].sec = 0
        /\ \A z \in ReturnedDays[Len(output.dates)]..input.from.day :
                ~NonBusiness(z) => z \in Range(ReturnedDays)
        /\ \A sec \in ClockChoices :
                output.dates = LastNBusinessDays(input.n,
                                                 Time(input.from.day, sec, input.from.loc))

\* C26: LastNBusinessDays(n, ref) returns exactly the n most recent business
\* days on or before the date of ref, most recent first: n dates, each a
\* business day, none skipped, whatever the time of day of ref.
C26_MostRecent ==
    /\ C26_NoneSkipped
    /\ output # NoCall =>
          /\ \A i \in 1..Len(output.dates) : ~NonBusiness(ReturnedDays[i])
          /\ \A i \in 2..Len(output.dates) : ReturnedDays[i] < ReturnedDays[i - 1]

\* the same, for the reference instants that carry time.Local
C26_LocalMostRecent == input.from.loc = "Local" => C26_MostRecent

\* ----------------------------------------------------------------- C27
\* the offsets of the movable holidays from Easter Sunday, in days
MovableOffsets == {0 - 48, 0 - 47, 0 - 2, 60}

\* C27: for every year of the range, easterSunday(year) is an integer day
\* that is a Sunday from 22 March to 25 April of that year, and the four
\* movable holidays derived from it (48, 47 and 2 days before, 60 days
\* after) lie in the same calendar year and are not business days for
\* isBusinessDayBR.
C27_Easter ==
    output # NoCall =>
        /\ output.easter.day \in Int
        /\ (output.easter.day + 4) % 7 = 0
        /\ output.easter.day >= DaysFromCivil(input.year, 3, 22)
        /\ output.easter.day <= DaysFromCivil(input.year, 4, 25)
        /\ CivilFromDays(output.easter.day).year = input.year
        /\ \A k \in MovableOffsets :
                /\ CivilFromDays(output.easter.day + k).year = input.year
                /\ ~isBusinessDayBR(AddDate(output.easter, k))

\* the year of the latest Easter of the range, 25 April 2038
C27_Witness ==
    /\ output # NoCall /\ input.year = 2038
    /\ CivilFromDays(output.easter.day) = Date(2038, 4, 25)
    /\ CivilFromDays(output.easter.day + 60) = Date(2038, 6, 24)

\* ----------------------------------------------------------------- C28
\* the rows of the file of day w handed to InsertTradesBatch in this run
RowsHanded(w) == {dir[w].rows[i] : i \in Range(Flatten(calls[w].batches))}

\* what C28 says of the type: the quantity of every Trade handed over is an
\* integer
C28_QuantityInteger ==
    \A w \in Days : \A r \in RowsHanded(w) : recordToTrade(r).TradeQuantity \in Int

\* C28: every Trade the parser hands to InsertTradesBatch has a trade
\* quantity that is an integer and at least 0, whatever the accepted
\* content of the quantity cell.
C28_QuantityNonNegative ==
    \A w \in Days : \A r \in RowsHanded(w) :
        /\ recordToTrade(r).TradeQuantity \in Int
        /\ recordToTrade(r).TradeQuantity >= 0

\* ----------------------------------------------------------------- C29
\* the number of digits in a cell
DigitsIn(cell) == Len(SelectSeq(cell, IsDigit))
\* the first six characters of c are digits that make a time of day
ClockPrefix(c) ==
    /\ Len(c) >= 6
    /\ \A i \in 1..6 : IsDigit(c[i])
    /\ 10 * DigitVal(c[1]) + DigitVal(c[2]) < 24
    /\ 10 * DigitVal(c[3]) + DigitVal(c[4]) < 60
    /\ 10 * DigitVal(c[5]) + DigitVal(c[6]) < 60
\* the data rows in which only the clock-time cell varies, with that cell
\* not empty, in a file whose other rows are well formed
ClockRows(w) ==
    {k \in 1..Len(dir[w].rows) :
        /\ Len(dir[w].rows[k]) = Len(expectedHeaders)
        /\ dir[w].rows[k] = WithCell(validRow, 6, dir[w].rows[k][6])
        /\ TrimSpace(dir[w].rows[k][6]) # <<>>
        /\ \A j \in 1..Len(dir[w].rows) : j # k => dir[w].rows[j] \in WellFormedRows}

\* C29 as claimed: a non-empty clock-time cell is accepted exactly when it
\* contains at least 6 digits.
C29_AcceptedIffSixDigits ==
    \A w \in Days : \A k \in ClockRows(w) :
        (InRun /\ ExpectedHeader(dir[w]) /\ ParseEnded(w)) =>
            (worker[w].err.kind # "row" <=> DigitsIn(dir[w].rows[k][6]) >= 6)

\* C29 as amended: a non-empty clock-time cell is accepted exactly when its
\* first six characters (the cell trimmed) are digits that make an hour
\* below 24, a minute below 60 and a second below 60; the closing time is
\* then what these six characters say, whatever follows them; a cell of
\* fewer than six characters fails the file.
C29_AcceptedIffClockPrefix ==
    \A w \in Days : \A k \in ClockRows(w) :
        LET cell == dir[w].rows[k][6]
            c == TrimSpace(cell)
        IN  /\ closingCell(cell) # NotClock <=> ClockPrefix(c)
            /\ Len(c) < 6 => closingCell(cell) = NotClock
            /\ Len(c) >= 6 => closingCell(cell) = closingCell(SubSeq(c, 1, 6))
            /\ ClockPrefix(c) =>
                    closingCell(cell) = Clock(10 * DigitVal(c[1]) + DigitVal(c[2]),
                                              10 * DigitVal(c[3]) + DigitVal(c[4]),
                                              10 * DigitVal(c[5]) + DigitVal(c[6]))
            /\ (InRun /\ ExpectedHeader(dir[w]) /\ ParseEnded(w)) =>
                    /\ worker[w].err.kind = "row" <=> ~ClockPrefix(c)
                    /\ worker[w].err.kind = "row" => (calls[w].ups = 0 /\ calls[w].ins = 0)

C29_Witness ==
    /\ Returned /\ result = Ok
    /\ dir[1].rows = <<WithCell(validRow, 6, <<"1", "0", "1", "5", "3", "0", "a", "b", "c">>)>>
    /\ recordToTrade(dir[1].rows[1]).ClosingTime = Clock(10, 15, 30)
    /\ ledger[1] = [filename |-> 1, rowCount |-> 1]

\* ----------------------------------------------------------------- C30
\* the rows of ingestion_log for day d
RowsOfDay(d) == {r \in output.rows : r.file_date = d}

\* C30: after any sequence of UpsertIngestionLog calls, ingestion_log holds
\* at most one row per day: none for a day no call succeeded for, and
\* otherwise the one row that carries the filename and the row count of the
\* latest successful call for that day; the ledger the pipeline reads is
\* that table.
C30_LatestUpsert ==
    output.op = "UpsertIngestionLog" =>
        \A d \in Days :
            /\ Cardinality(RowsOfDay(d)) <= 1
            /\ output.writes[d] = 0 => (RowsOfDay(d) = {} /\ ledger[d] = NoEntry)
            /\ output.writes[d] > 0 =>
                    /\ RowsOfDay(d) = {IngestionLogRow(d, output.latest[d].filename,
                                                       output.latest[d].rowCount)}
                    /\ ledger[d] = output.latest[d]
            /\ (input # NoCall /\ input.ok /\ input.date = d) =>
                    ledger[d] = [filename |-> input.filename, rowCount |-> input.rowCount]

\* a day written twice: its one row carries the values of the second call
C30_Witness ==
    /\ output.op = "UpsertIngestionLog" /\ output.calls = 2 /\ output.writes[1] = 2
    /\ input.ok /\ input.date = 1 /\ input.filename = 2 /\ input.rowCount = 0
    /\ output.rows = {IngestionLogRow(1, 2, 0)}

\* ----------------------------------------------------------------- C31
\* a step of the pipeline keeps every ledger entry there is
C31_Step == \A d \in Days : ledger[d] # NoEntry => ledger'[d] # NoEntry

\* C31: no step of the pipeline removes a ledger entry: a day for which
\* HasIngestionForDate answers true keeps answering true through every later
\* step of every run, forced or not, successful or failed.
C31_NeverRemoved == [][C31_Step]_vars

\* a forced run that deleted the trades of an ingested day and then failed
C31_Witness ==
    /\ Returned /\ runs = 2 /\ force /\ result # Ok
    /\ ledger0[1] # NoEntry /\ calls[1].del = 1 /\ worker[1].err # NoErr
    /\ HasIngestionForDate(ledger, 1)

\* ----------------------------------------------------------------- C32
\* the number of times row i is in the batch
Occurrences(b, i) == Cardinality({j \in 1..Len(b) : b[j] = i})
InsertReturned == output.op = "InsertTradesBatch" /\ output.pc = "returned"
InsertSteps == {"begin", "setlocal", "prepare", "row", "finalexec", "close", "commit"}

\* C32: a call of InsertTradesBatch is atomic: when it has returned an error
\* (from begin, the session setting, prepare, a row, the final exec, the
\* statement close or the commit) the visible trades are those before the
\* call and nothing of the call is left pending; when it has returned
\* success every row of the batch has been added, once per occurrence; and
\* until it returns nothing of it is visible.
C32_AtomicPerCall ==
    output.op = "InsertTradesBatch" =>
        /\ output.err \in InsertSteps \cup {"none"}
        /\ ~InsertReturned => (output.table = input.table /\ output.err = "none")
        /\ (InsertReturned /\ output.err # "none") =>
              (output.table = input.table /\ output.sent = <<>> /\ output.tx # "committed"
               /\ output.tx # "open")
        /\ (InsertReturned /\ output.err = "none") =>
              /\ output.tx = "committed"
              /\ \A d \in Days : \A i \in 1..MaxRows :
                    output.table[d][i] =
                        input.table[d][i]
                        + (IF d = input.day THEN Occurrences(input.trades, i) ELSE 0)

\* the exec of the last row of a batch of three failed after two rows had
\* been sent, in a table that already held a row
C32_Witness ==
    /\ InsertReturned /\ output.err = "row" /\ output.k = MaxRows
    /\ Len(input.trades) = MaxRows /\ input.table # NoTrades
    /\ output.tx = "rolledback" /\ output.table = input.table

\* a call that returned success after sending three rows
C32_WitnessCommitted ==
    /\ InsertReturned /\ output.err = "none" /\ input.trades = <<1, 1, 2>>
    /\ output.table[InsertDay][1] = input.table[InsertDay][1] + 2

\* ----------------------------------------------------------------- C33
\* C33: when a run has returned, successful or failed, forced or not, every
\* day that has a ledger entry has every data row of its file persisted.
C33_LedgerImpliesRows ==
    Returned =>
        \A d \in Days :
            ledger[d] # NoEntry => \A i \in 1..Len(dir[d].rows) : trades[d][i] >= 1

\* the same, for the runs that are not forced
C33_UnforcedLedgerImpliesRows == ~force => C33_LedgerImpliesRows

\* ----------------------------------------------------------------- C34
\* a worker that begins its per-file steps (its HasIngestionForDate call)
\* with the shared signal set does not go on to the DeleteTradesByDate call;
\* pc = "delete" is the point of the worker function where that call is made
C34_Step ==
    \A w \in Days :
        (InRun /\ force /\ gcancelled /\ worker[w].pc = "has") => worker'[w].pc # "delete"

\* C34: in a forced run, at any parallelism and in any interleaving, no
\* worker that had not begun its per-file steps when a worker's failure set
\* the shared signal makes a DeleteTradesByDate call.
C34_NoDeleteAfterFailure == [][C34_Step]_vars

\* ----------------------------------------------------------------- C35
\* C35: when a forced run has returned success, the persisted trades of
\* every day it processed are the data rows of that day's file, each once,
\* whatever an earlier failed run had left behind.
C35_ForcedExactlyOnce ==
    (Returned /\ force /\ result = Ok) =>
        \A d \in 1..nDays : \A i \in 1..MaxRows :
            trades[d][i] = IF i <= Len(dir[d].rows) THEN 1 ELSE 0

\* the same, for the days that had a ledger entry when the run began
C35_ForcedExactlyOnceIngested ==
    (Returned /\ force /\ result = Ok) =>
        \A d \in 1..nDays : ledger0[d] # NoEntry =>
            \A i \in 1..MaxRows : trades[d][i] = IF i <= Len(dir[d].rows) THEN 1 ELSE 0

\* ----------------------------------------------------------------- C36
\* the worker function run alone on the file of day d, no call failing:
\* skipped when the day is ingested and the run is not forced; otherwise the
\* day's trades are deleted when it is ingested (and the run forced), every
\* data row is inserted once and the ledger entry is written
ProcessAlone(d, st) ==
    LET ingested == st.ledger[d] # NoEntry
        n == Len(dir[d].rows)
        kept == IF ingested THEN [i \in 1..MaxRows |-> 0] ELSE st.trades[d]
    IN  IF ingested /\ ~force THEN st
        ELSE [trades |-> [st.trades EXCEPT
                             ![d] = [i \in 1..MaxRows |->
                                        kept[i] + (IF i <= n THEN 1 ELSE 0)]],
              ledger |-> [st.ledger EXCEPT ![d] = [filename |-> d, rowCount |-> n]]]

\* the files of days 1..n processed one at a time
RECURSIVE OneAtATime(_, _, _)
OneAtATime(n, t, l) ==
    IF n = 0 THEN [trades |-> t, ledger |-> l]
    ELSE ProcessAlone(n, OneAtATime(n - 1, t, l))

Served == 1..Len(output.served)
Admitted == {i \in Served : output.served[i].status = StatusOK}
\* the requests were answered in the order in which they read the clock
InClockOrder ==
    \A i \in Served : \A j \in Served : i < j => output.served[i].now <= output.served[j].now
\* every request was answered at once, and less than a window after it read
\* the clock
AnsweredAtOnce == \A i \in Served : output.served[i].at = output.served[i].now
AnsweredSoon == \A i \in Served : output.served[i].at - output.served[i].now < window

\* C37: whatever the interleaving of the requests of one IP, the requests
\* admitted within any span of time shorter than the window, by the time
\* they read and by the time of their answer, are at most `limit` (here for
\* requests that each wait less than a window for the lock).
C37_AtMostLimitPerWindow ==
    (output.op = "RateLimiter" /\ AnsweredSoon) =>
        \A S \in SUBSET Admitted :
            (\A i \in S : \A j \in S :
                /\ output.served[j].now - output.served[i].now < window
                /\ output.served[j].at - output.served[i].at < window)
            => Cardinality(S) <= limit

\* the same, for the requests answered in the order in which they read the
\* clock
C37_AtMostLimitInOrder == InClockOrder => C37_AtMostLimitPerWindow

\* the counter loses no increment: every answered request either began a
\* count at 1 or left the count one above the one the request before it left
C37_NoLostIncrement ==
    output.op = "RateLimiter" =>
        /\ \A i \in Served :
              output.served[i].count =
                  IF output.served[i].fresh THEN 1 ELSE output.served[i - 1].count + 1
        /\ output.served # <<>> =>
              output.client.count = output.served[Len(output.served)].count

\* ----------------------------------------------------------------- C38
\* the requests answered before the i-th that read the clock within the
\* window that ends when the i-th read it
Preceding(i) ==
    {j \in Served : j < i /\ output.served[j].now <= output.served[i].now
                          /\ output.served[i].now - output.served[j].now <= window}

\* C38: a request of an IP that has made fewer than `limit` requests during
\* the window before it is admitted (here for requests answered at once, one
\* after the other, in the order in which they read the clock).
C38_AdmittedBelowLimit ==
    output.op = "RateLimiter" =>
        \A i \in Served :
            (InClockOrder /\ AnsweredAtOnce /\ Cardinality(Preceding(i)) < limit) =>
                output.served[i].status = StatusOK

====
